---- MODULE Spec2Model ----
(***************************************************************************)
(* A model of the layer1 pipeline of mcp-layers-research: the versioned    *)
(* artifact store (storage.go), the rule-based segmenter (segmenter.go),   *)
(* the converter (converter.go), the schema validator (validator.go) and   *)
(* the stage commands of cmd/pipeline/main.go.                             *)
(*                                                                         *)
(* Document text (titles, ids, block text) is a sequence of one-character  *)
(* strings, so that the regular expressions and string functions of the    *)
(* code can be computed; the empty Go string "" is the empty sequence.     *)
(* TLA+ strings are used for tags only (artifact types, file names, error  *)
(* kinds).  A time.Time is a number of ticks of the clock, in UTC.  A      *)
(* slice that the encoding does not omit when empty (Pages, Blocks,        *)
(* Categories) has a flag beside it that tells nil from empty: json        *)
(* writes null for the one and [] for the other.                           *)
(***************************************************************************)
EXTENDS Integers, Sequences, FiniteSets, TLC

VARIABLES
    dirs,        \* version directories intermediate/{id}/v{n}: a set of <<id, n>>
    files,       \* files below them: <<id, n, name>> -> content
    finalFiles,  \* files of final/: <<id, ext>> -> content
    assigned,    \* history: <<id, type>> -> the version each save call left in its document, in call order
    lastFinal,   \* history: id -> the data of the latest successful SaveFinal, if any
    nSaves,      \* history: the number of save calls so far
    lastOp,      \* the last storage call: its arguments and what it returned
    seg,         \* a run of Segment: its document, its position in the block stream, its locals
    segHist,     \* history: the guidelines the run attached to a category, with their markers
    conv,        \* a call of ConvertAndValidate: its document and what it returned
    reports,     \* files of validation-reports/: <<id, stage, second>> -> content
    now,         \* the clock that time.Now() reads, in ticks
    lastCmd,     \* the last stage command: its flags and what it returned
    procs        \* concurrent invocations of a save: each one's position and locals

storeVars == <<dirs, files, finalFiles, assigned, lastFinal, nSaves, lastOp>>
segVars == <<seg, segHist>>
convVars == <<conv>>
reportVars == <<reports, now>>
pipeVars == <<lastCmd>>
concVars == <<procs>>
nonStoreVars == <<segVars, convVars, reportVars, pipeVars, concVars>>
nonSegVars == <<storeVars, convVars, reportVars, pipeVars, concVars>>
nonConvVars == <<storeVars, segVars, reportVars, pipeVars, concVars>>
vars == <<storeVars, segVars, convVars, reportVars, pipeVars, concVars>>

(***************************************************************************)
(* Bounds of the model.                                                    *)
(***************************************************************************)
MaxVersion == 3     \* no save is started once a type has reached this version
MaxSaves == 4       \* total number of save calls in one behaviour
MaxConcSaves == 3   \* invocations of a save in one behaviour of concurrent saves
MaxConcClock == 1   \* ticks of the clock in one behaviour of concurrent saves
MaxBlocks == 4      \* blocks of a document given to the segmenter
MaxCategories == 2  \* categories of a document given to the converter
MaxPipeSaves == 2   \* segmented versions stored before and between convert stages
MaxClock == 3       \* ticks of the clock in one behaviour
MaxSegmentBlocks == 2  \* blocks of a document given to Segment as one call
MaxCoverageBlocks == 1   \* blocks on one page of a document given to the coverage analyzer
MaxUnmapped == 3         \* unmapped-content items of a segmented document
MaxStageSaves == 3       \* versions saved by the stage commands of one behaviour
MaxValCategories == 3  \* categories of a document given to Validate

D1 == <<"d", "1">>
D2 == <<"d", "2">>

DocIDs == {D1, D2}
Types == {"parsed", "segmented"}

(***************************************************************************)
(* Text helpers.                                                           *)
(***************************************************************************)
S_Test == <<"T", "e", "s", "t">>
S_post == <<"p", "o", "s", "t">>

\* The white space of the regular expressions: \s is [\t\n\f\r ].
Spaces == {" ", "\t", "\n", "\r", "\f"}

\* A rune outside printable ASCII is written by the name of its code point.
U_VT == "U+000B"
U_NEL == "U+0085"
U_NBSP == "U+00A0"
U_EAcute == "U+00C9"
U_eAcute == "U+00E9"
U_IDot == "U+0130"
U_LongS == "U+017F"
U_Kelvin == "U+212A"

\* unicode.IsSpace: the white space of strings.TrimSpace.
UnicodeSpaces ==
    Spaces \cup {U_VT, U_NEL, U_NBSP, "U+1680", "U+2000", "U+2001", "U+2002", "U+2003",
                 "U+2004", "U+2005", "U+2006", "U+2007", "U+2008", "U+2009", "U+200A",
                 "U+2028", "U+2029", "U+202F", "U+205F", "U+3000"}

S_SimpleParser == <<"s", "i", "m", "p", "l", "e", "-", "v", "1", ".", "0">>
S_GenericSegmenter == <<"g", "e", "n", "e", "r", "i", "c", "-", "v", "1", ".", "0">>

\* The clock ticks twice a second: time.Now() is finer than the file name of a report.
TicksPerSecond == 2

\* time.Time{}: a whole second before every reading of the clock.
ZeroTime == 0 - TicksPerSecond

(***************************************************************************)
(* types.go: the documents.                                                *)
(***************************************************************************)
\* Block{Type: type, Level: level, Text: text}; the pointers BBox, ListItem and
\* TableData are nil (<<>>) or hold one record.  Font sizes and the coordinates of a
\* bounding box are whole numbers in the documents of the model.
Block(type, level, text) ==
    [Type |-> type, Level |-> level, Text |-> text, BBox |-> <<>>, FontSize |-> 0,
     FontWeight |-> <<>>, FontName |-> <<>>, ListItem |-> <<>>, TableData |-> <<>>]

S_bold == <<"b", "o", "l", "d">>

\* The heading block of the simple parser.
HeadingBlock(level, text) ==
    [Block("heading", level, text) EXCEPT !.FontSize = 18 - level * 2,
                                          !.FontWeight = S_bold]

\* The list block of the simple parser.
ListBlock(marker, listType, indent, text) ==
    [Block("list", 0, text) EXCEPT
        !.ListItem = <<[Level |-> indent, Marker |-> marker, Type |-> listType]>>]

\* Page{PageNumber: n, Blocks: []types.Block{...}}
NewPage(n, blocks) == [PageNumber |-> n, Blocks |-> blocks, NilBlocks |-> FALSE]

\* ParsedDocument{Metadata: ParsedMetadata{DocumentID: id}, Pages: []types.Page{...}}
NewParsedDocument(id, pages) ==
    [Metadata |-> [SourceFile |-> <<>>, Parser |-> <<>>, ParsedAt |-> ZeroTime,
                   Version |-> 0, DocumentID |-> id],
     Pages |-> pages, NilPages |-> FALSE]

NewDocumentMetadata(id, title, description, author, docType) ==
    [ID |-> id, Title |-> title, Description |-> description, Author |-> author,
     Version |-> <<>>, PublicationDate |-> <<>>, DocumentType |-> docType,
     Jurisdictions |-> <<>>, IndustrySectors |-> <<>>]

NewSegmentCategory(id, title) ==
    [ID |-> id, Title |-> title, Description |-> <<>>, Guidelines |-> <<>>]

NewSegmentGuideline(id, title) ==
    [ID |-> id, Title |-> title, Objective |-> <<>>, Recommendations |-> <<>>, Parts |-> <<>>]

NewSegmentPart(id, text) ==
    [ID |-> id, Title |-> <<>>, Text |-> text, Recommendations |-> <<>>]

\* SegmentedDocument{..., Categories: []types.SegmentCategory{...}}
NewSegmentedDocument(id, sourceVersion, docMeta, frontMatter, categories) ==
    [Metadata |-> [SourceVersion |-> sourceVersion, Segmenter |-> <<>>,
                   SegmentedAt |-> ZeroTime, Version |-> 0, DocumentID |-> id],
     DocumentMetadata |-> docMeta,
     FrontMatter |-> frontMatter,
     Categories |-> categories, NilCategories |-> FALSE]

(***************************************************************************)
(* encoding/json on the documents: the stored form carries the json tags   *)
(* of types.go.  A file that is no JSON document is known by its length:   *)
(* a file whose write failed after the open is left empty.                 *)
(***************************************************************************)
\* A file of n bytes that json.Unmarshal rejects.
BrokenFile(n) == [ok |-> FALSE, len |-> n]

PartialFile == BrokenFile(0)

\* pages_null: the value of "pages" is null (a page's "blocks": NilBlocks of the page).
MarshalParsed(doc) ==
    [ok |-> TRUE,
     json |-> [metadata |-> [source_file |-> doc.Metadata.SourceFile,
                             parser |-> doc.Metadata.Parser,
                             parsed_at |-> doc.Metadata.ParsedAt,
                             version |-> doc.Metadata.Version,
                             document_id |-> doc.Metadata.DocumentID],
               pages |-> doc.Pages, pages_null |-> doc.NilPages]]

\* json.Unmarshal leaves a slice nil for null and makes an empty one for [].
UnmarshalParsed(data) ==
    [Metadata |-> [SourceFile |-> data.json.metadata.source_file,
                   Parser |-> data.json.metadata.parser,
                   ParsedAt |-> data.json.metadata.parsed_at,
                   Version |-> data.json.metadata.version,
                   DocumentID |-> data.json.metadata.document_id],
     Pages |-> data.json.pages, NilPages |-> data.json.pages_null]

MarshalSegmented(doc) ==
    [ok |-> TRUE,
     json |-> [metadata |-> [source_version |-> doc.Metadata.SourceVersion,
                             segmenter |-> doc.Metadata.Segmenter,
                             segmented_at |-> doc.Metadata.SegmentedAt,
                             version |-> doc.Metadata.Version,
                             document_id |-> doc.Metadata.DocumentID],
               document_metadata |-> doc.DocumentMetadata,
               front_matter |-> doc.FrontMatter,
               categories |-> doc.Categories, categories_null |-> doc.NilCategories]]

UnmarshalSegmented(data) ==
    [Metadata |-> [SourceVersion |-> data.json.metadata.source_version,
                   Segmenter |-> data.json.metadata.segmenter,
                   SegmentedAt |-> data.json.metadata.segmented_at,
                   Version |-> data.json.metadata.version,
                   DocumentID |-> data.json.metadata.document_id],
     DocumentMetadata |-> data.json.document_metadata,
     FrontMatter |-> data.json.front_matter,
     Categories |-> data.json.categories, NilCategories |-> data.json.categories_null]

SetVersion(doc, version) == [doc EXCEPT !.Metadata.Version = version]

(***************************************************************************)
(* len(data) of json.MarshalIndent(doc, "", "  "): the number of bytes of  *)
(* the indented encoding.  The members of a block that are omitted when    *)
(* empty (bbox, font, list item, table data) are empty in every document   *)
(* of the model.                                                           *)
(***************************************************************************)
RECURSIVE SumSeq(_)
SumSeq(ns) == IF ns = <<>> THEN 0 ELSE Head(ns) + SumSeq(Tail(ns))

RECURSIVE IntLen(_)
IntLen(n) == IF n < 10 THEN 1 ELSE 1 + IntLen(n \div 10)

\* The bytes of one rune inside a JSON string: the escapes of encoding/json (with
\* HTML escaping) and the UTF-8 length of the other runes.
RuneLen(c) ==
    IF c \in {"\"", "\\", "\n", "\r", "\t", "\f"} THEN 2
    ELSE IF c \in {"<", ">", "&", U_VT, "U+2028", "U+2029"} THEN 6
    ELSE IF c \in {U_NEL, U_NBSP, U_EAcute, U_eAcute, U_IDot, U_LongS} THEN 2
    ELSE IF c \in UnicodeSpaces \ Spaces \/ c = U_Kelvin THEN 3
    ELSE 1

StringLen(str) == 2 + SumSeq([i \in 1..Len(str) |-> RuneLen(str[i])])

\* A name of the program (a block type): ASCII letters between quotes.
NameLen(name) == 2 + Len(name)

\* time.Time is encoded in RFC 3339 with the fraction of the second cut after its last
\* non-zero digit: "2006-01-02T15:04:05Z" on a whole second, ".5" more on a half.
TimeLen(t) == IF t % TicksPerSecond = 0 THEN 22 ELSE 24

\* One member of an object at nesting depth d: new line, indentation, "key": value.
Member(d, key, valueLen) == 1 + 2 * (d + 1) + Len(key) + 4 + valueLen

\* A member with omitempty: left out when the value is empty.
OmitEmpty(empty, member) == IF empty THEN <<>> ELSE <<member>>

\* { members } with the closing brace on its own line at depth d.
ObjectLen(d, members) == 1 + SumSeq(members) + (Len(members) - 1) + 1 + 2 * d + 1

\* [ elements ], each on its own line; an empty slice is [], a nil slice is null.
ArrayLen(d, elementLens, isNil) ==
    IF isNil THEN 4
    ELSE IF elementLens = <<>> THEN 2
    ELSE 1 + SumSeq([i \in DOMAIN elementLens |-> 1 + 2 * (d + 1) + elementLens[i]])
           + (Len(elementLens) - 1) + 1 + 2 * d + 1

\* A slice of strings under omitempty: encoded only when it has elements.
StringsLen(d, strs) == ArrayLen(d, [i \in DOMAIN strs |-> StringLen(strs[i])], FALSE)

\* A float64 that is a whole number: its digits, with the sign.
FloatLen(x) == IF x < 0 THEN 1 + IntLen(0 - x) ELSE IntLen(x)

BBoxLen(d, bbox) ==
    ObjectLen(d, <<Member(d, "x1", FloatLen(bbox.X1)), Member(d, "y1", FloatLen(bbox.Y1)),
                   Member(d, "x2", FloatLen(bbox.X2)), Member(d, "y2", FloatLen(bbox.Y2))>>)

ListItemLen(d, item) ==
    ObjectLen(d, <<Member(d, "level", IntLen(item.Level)),
                   Member(d, "marker", StringLen(item.Marker)),
                   Member(d, "type", NameLen(item.Type))>>)

\* Rows [][]string: every row is [Cells, NilCells].
TableDataLen(d, table) ==
    ObjectLen(d, <<Member(d, "rows",
                          ArrayLen(d + 1,
                                   [i \in DOMAIN table.Rows |->
                                       ArrayLen(d + 2,
                                                [j \in DOMAIN table.Rows[i].Cells |->
                                                    StringLen(table.Rows[i].Cells[j])],
                                                table.Rows[i].NilCells)],
                                   table.NilRows))>>)

BlockLen(d, block) ==
    ObjectLen(d, <<Member(d, "type", NameLen(block.Type))>>
                 \o OmitEmpty(block.Level = 0, Member(d, "level", IntLen(block.Level)))
                 \o <<Member(d, "text", StringLen(block.Text))>>
                 \o OmitEmpty(block.BBox = <<>>,
                              Member(d, "bbox", BBoxLen(d + 1, block.BBox[1])))
                 \o OmitEmpty(block.FontSize = 0,
                              Member(d, "font_size", FloatLen(block.FontSize)))
                 \o OmitEmpty(block.FontWeight = <<>>,
                              Member(d, "font_weight", StringLen(block.FontWeight)))
                 \o OmitEmpty(block.FontName = <<>>,
                              Member(d, "font_name", StringLen(block.FontName)))
                 \o OmitEmpty(block.ListItem = <<>>,
                              Member(d, "list_item", ListItemLen(d + 1, block.ListItem[1])))
                 \o OmitEmpty(block.TableData = <<>>,
                              Member(d, "table_data",
                                     TableDataLen(d + 1, block.TableData[1]))))

PageLen(d, page) ==
    ObjectLen(d, <<Member(d, "page_number", IntLen(page.PageNumber)),
                   Member(d, "blocks",
                          ArrayLen(d + 1, [i \in DOMAIN page.Blocks |->
                                              BlockLen(d + 2, page.Blocks[i])],
                                   page.NilBlocks))>>)

ParsedLen(json) ==
    ObjectLen(0,
        <<Member(0, "metadata",
                 ObjectLen(1, <<Member(1, "source_file",
                                       StringLen(json.metadata.source_file)),
                                Member(1, "parser", StringLen(json.metadata.parser)),
                                Member(1, "parsed_at", TimeLen(json.metadata.parsed_at)),
                                Member(1, "version", IntLen(json.metadata.version)),
                                Member(1, "document_id",
                                       StringLen(json.metadata.document_id))>>)),
          Member(0, "pages",
                 ArrayLen(1, [i \in DOMAIN json.pages |-> PageLen(2, json.pages[i])],
                          json.pages_null))>>)

SegmentPartLen(d, part) ==
    ObjectLen(d, <<Member(d, "id", StringLen(part.ID))>>
                 \o OmitEmpty(part.Title = <<>>, Member(d, "title", StringLen(part.Title)))
                 \o <<Member(d, "text", StringLen(part.Text))>>
                 \o OmitEmpty(part.Recommendations = <<>>,
                              Member(d, "recommendations",
                                     StringsLen(d + 1, part.Recommendations))))

SegmentGuidelineLen(d, guide) ==
    ObjectLen(d, <<Member(d, "id", StringLen(guide.ID)),
                   Member(d, "title", StringLen(guide.Title))>>
                 \o OmitEmpty(guide.Objective = <<>>,
                              Member(d, "objective", StringLen(guide.Objective)))
                 \o OmitEmpty(guide.Recommendations = <<>>,
                              Member(d, "recommendations",
                                     StringsLen(d + 1, guide.Recommendations)))
                 \o OmitEmpty(guide.Parts = <<>>,
                              Member(d, "parts",
                                     ArrayLen(d + 1, [i \in DOMAIN guide.Parts |->
                                                  SegmentPartLen(d + 2, guide.Parts[i])],
                                              FALSE))))

SegmentCategoryLen(d, cat) ==
    ObjectLen(d, <<Member(d, "id", StringLen(cat.ID)),
                   Member(d, "title", StringLen(cat.Title)),
                   Member(d, "description", StringLen(cat.Description))>>
                 \o OmitEmpty(cat.Guidelines = <<>>,
                              Member(d, "guidelines",
                                     ArrayLen(d + 1, [i \in DOMAIN cat.Guidelines |->
                                         SegmentGuidelineLen(d + 2, cat.Guidelines[i])],
                                              FALSE))))

DocumentMetadataLen(d, meta) ==
    ObjectLen(d, <<Member(d, "id", StringLen(meta.ID)),
                   Member(d, "title", StringLen(meta.Title)),
                   Member(d, "description", StringLen(meta.Description)),
                   Member(d, "author", StringLen(meta.Author)),
                   Member(d, "version", StringLen(meta.Version))>>
                 \o OmitEmpty(meta.PublicationDate = <<>>,
                              Member(d, "publication_date", StringLen(meta.PublicationDate)))
                 \o OmitEmpty(meta.DocumentType = <<>>,
                              Member(d, "document_type", StringLen(meta.DocumentType)))
                 \o OmitEmpty(meta.Jurisdictions = <<>>,
                              Member(d, "jurisdictions", StringsLen(d + 1, meta.Jurisdictions)))
                 \o OmitEmpty(meta.IndustrySectors = <<>>,
                              Member(d, "industry_sectors",
                                     StringsLen(d + 1, meta.IndustrySectors))))

SegmentedLen(json) ==
    ObjectLen(0,
        <<Member(0, "metadata",
                 ObjectLen(1, <<Member(1, "source_version",
                                       IntLen(json.metadata.source_version)),
                                Member(1, "segmenter", StringLen(json.metadata.segmenter)),
                                Member(1, "segmented_at",
                                       TimeLen(json.metadata.segmented_at)),
                                Member(1, "version", IntLen(json.metadata.version)),
                                Member(1, "document_id",
                                       StringLen(json.metadata.document_id))>>)),
          Member(0, "document_metadata", DocumentMetadataLen(1, json.document_metadata))>>
        \o OmitEmpty(json.front_matter = <<>>,
                     Member(0, "front_matter", StringLen(json.front_matter)))
        \o <<Member(0, "categories",
                    ArrayLen(1, [i \in DOMAIN json.categories |->
                                    SegmentCategoryLen(2, json.categories[i])],
                             json.categories_null))>>)

\* int64(len(data)) of the marshalled artifact.
ByteLen(data, docType) ==
    IF docType = "parsed" THEN ParsedLen(data.json) ELSE SegmentedLen(data.json)

(***************************************************************************)
(* Strings of the code over character sequences: the character classes of  *)
(* the regular expressions, strings.TrimSpace, strings.ToLower,            *)
(* strings.Contains, strings.Split.                                        *)
(***************************************************************************)
Digits == {"0", "1", "2", "3", "4", "5", "6", "7", "8", "9"}

Uppers ==
    <<"A", "B", "C", "D", "E", "F", "G", "H", "I", "J", "K", "L", "M",
      "N", "O", "P", "Q", "R", "S", "T", "U", "V", "W", "X", "Y", "Z">>

Lowers ==
    <<"a", "b", "c", "d", "e", "f", "g", "h", "i", "j", "k", "l", "m",
      "n", "o", "p", "q", "r", "s", "t", "u", "v", "w", "x", "y", "z">>

UpperSet == {Uppers[i] : i \in DOMAIN Uppers}

\* unicode.ToLower of one rune: A-Z and, of the runes outside ASCII, those the texts
\* of the model use.
LowerChar(c) ==
    IF c \in UpperSet THEN Lowers[CHOOSE i \in DOMAIN Uppers : Uppers[i] = c]
    ELSE IF c = U_EAcute THEN U_eAcute
    ELSE IF c = U_IDot THEN "i"
    ELSE IF c = U_Kelvin THEN "k"
    ELSE c

ToLower(s) == [i \in 1..Len(s) |-> LowerChar(s[i])]

\* The rune that stands for the case-folding class of c under (?i) of package regexp
\* (unicode.SimpleFold): k, K and the Kelvin sign are one class, s, S and the long s
\* another; U+0130 folds to nothing else.
FoldChar(c) ==
    IF c = U_LongS THEN "s"
    ELSE IF c = U_IDot THEN c
    ELSE LowerChar(c)

Fold(s) == [i \in 1..Len(s) |-> FoldChar(s[i])]

\* The last position of the run of characters of class C that starts at i (i - 1: no run).
RunEnd(s, i, C) ==
    CHOOSE j \in (i - 1)..Len(s) :
        /\ \A k \in i..j : s[k] \in C
        /\ j < Len(s) => s[j + 1] \notin C

\* The last position of the line that starts at i: up to the next newline or the end.
LineEnd(s, i) ==
    CHOOSE j \in (i - 1)..Len(s) :
        /\ \A k \in i..j : s[k] # "\n"
        /\ j < Len(s) => s[j + 1] = "\n"

TrimSpace(s) ==
    IF \A k \in 1..Len(s) : s[k] \in UnicodeSpaces THEN <<>>
    ELSE LET a == CHOOSE i \in 1..Len(s) :
                      s[i] \notin UnicodeSpaces /\ \A k \in 1..(i - 1) : s[k] \in UnicodeSpaces
             b == CHOOSE j \in 1..Len(s) :
                      s[j] \notin UnicodeSpaces /\ \A k \in (j + 1)..Len(s) : s[k] \in UnicodeSpaces
         IN  SubSeq(s, a, b)

\* Whether sub occurs in s at position i.
OccursAt(s, sub, i) ==
    /\ i >= 1
    /\ i + Len(sub) - 1 <= Len(s)
    /\ \A k \in 1..Len(sub) : s[i + k - 1] = sub[k]

Contains(s, sub) == \E i \in 1..(Len(s) + 1) : OccursAt(s, sub, i)

\* strings.Split(s, sep) for a one-character separator.
RECURSIVE Split(_, _)
Split(s, sep) ==
    IF \A k \in 1..Len(s) : s[k] # sep THEN <<s>>
    ELSE LET i == CHOOSE j \in 1..Len(s) : s[j] = sep /\ \A k \in 1..(j - 1) : s[k] # sep
         IN  <<SubSeq(s, 1, i - 1)>> \o Split(SubSeq(s, i + 1, Len(s)), sep)

(***************************************************************************)
(* segmenter.go: the rules of NewGenericSegmenter.  A match is the         *)
(* sequence of its capture groups, no match the empty sequence.            *)
(***************************************************************************)
\* ^([0-9]+)\.\s+([A-Z].*)
MatchCategory(text) ==
    LET d == RunEnd(text, 1, Digits)
        w == RunEnd(text, d + 2, Spaces)
    IN  IF /\ d >= 1
           /\ d + 1 <= Len(text) /\ text[d + 1] = "."
           /\ w >= d + 2
           /\ w + 1 <= Len(text) /\ text[w + 1] \in UpperSet
        THEN <<SubSeq(text, 1, d), SubSeq(text, w + 1, LineEnd(text, w + 1))>>
        ELSE <<>>

\* ^([0-9]+\.[0-9]+)\s+([A-Z].*)
MatchGuideline(text) ==
    LET d1 == RunEnd(text, 1, Digits)
        d2 == RunEnd(text, d1 + 2, Digits)
        w == RunEnd(text, d2 + 1, Spaces)
    IN  IF /\ d1 >= 1
           /\ d1 + 1 <= Len(text) /\ text[d1 + 1] = "."
           /\ d2 >= d1 + 2
           /\ w >= d2 + 1
           /\ w + 1 <= Len(text) /\ text[w + 1] \in UpperSet
        THEN <<SubSeq(text, 1, d2), SubSeq(text, w + 1, LineEnd(text, w + 1))>>
        ELSE <<>>

\* ^([0-9]+\.[0-9]+\.[0-9]+)\s+(.*)
MatchPart(text) ==
    LET d1 == RunEnd(text, 1, Digits)
        d2 == RunEnd(text, d1 + 2, Digits)
        d3 == RunEnd(text, d2 + 2, Digits)
        w == RunEnd(text, d3 + 1, Spaces)
    IN  IF /\ d1 >= 1
           /\ d1 + 1 <= Len(text) /\ text[d1 + 1] = "."
           /\ d2 >= d1 + 2
           /\ d2 + 1 <= Len(text) /\ text[d2 + 1] = "."
           /\ d3 >= d2 + 2
           /\ w >= d3 + 1
        THEN <<SubSeq(text, 1, d3), SubSeq(text, w + 1, LineEnd(text, w + 1))>>
        ELSE <<>>

ObjectiveKeywords ==
    <<<<"o", "b", "j", "e", "c", "t", "i", "v", "e">>,
      <<"p", "u", "r", "p", "o", "s", "e">>,
      <<"g", "o", "a", "l">>,
      <<"i", "n", "t", "e", "n", "t">>>>

RecommendationKeywords ==
    <<<<"r", "e", "c", "o", "m", "m", "e", "n", "d", "a", "t", "i", "o", "n">>,
      <<"g", "u", "i", "d", "a", "n", "c", "e">>,
      <<"i", "m", "p", "l", "e", "m", "e", "n", "t", "a", "t", "i", "o", "n">>,
      <<"s", "h", "o", "u", "l", "d">>,
      <<"m", "u", "s", "t">>>>

(***************************************************************************)
(* segmenter.go: finalizeGuideline.                                        *)
(***************************************************************************)
\* \s*(.+) (or \s+(.+) with minSpaces = 1) right after position c: the capture
\* group, or no match.  \s is greedy and gives characters back when nothing but
\* white space follows.
RestAfterSpaces(text, c, minSpaces) ==
    LET w == RunEnd(text, c + 1, Spaces)
        back == {j \in (c + 1 + minSpaces)..w : text[j] # "\n"}
    IN  IF w - c < minSpaces THEN <<>>
        ELSE IF w < Len(text) THEN <<SubSeq(text, w + 1, LineEnd(text, w + 1))>>
        ELSE IF back = {} THEN <<>>
        ELSE LET j == CHOOSE x \in back : \A y \in back : y <= x
             IN  <<SubSeq(text, j, LineEnd(text, j))>>

\* (?i)keyword:\s*([^\n]+) tried at position p.
ObjectiveAt(text, keyword, p) ==
    LET c == p + Len(keyword)
    IN  IF OccursAt(Fold(text), keyword, p) /\ c <= Len(text) /\ text[c] = ":"
        THEN RestAfterSpaces(text, c, 0)
        ELSE <<>>

\* FindStringSubmatch: the leftmost match.
FindObjective(text, keyword) ==
    LET ps == {p \in 1..Len(text) : ObjectiveAt(text, keyword, p) # <<>>}
    IN  IF ps = {} THEN <<>>
        ELSE ObjectiveAt(text, keyword, CHOOSE p \in ps : \A q \in ps : p <= q)

\* The loop over ObjectiveKeywords: the first keyword that matches sets the objective.
RECURSIVE ExplicitObjective(_, _, _)
ExplicitObjective(objective, text, keywords) ==
    IF keywords = <<>> THEN objective
    ELSE IF FindObjective(text, Head(keywords)) # <<>>
    THEN TrimSpace(FindObjective(text, Head(keywords))[1])
    ELSE ExplicitObjective(objective, text, Tail(keywords))

HasRecommendationKeyword(line) ==
    \E i \in DOMAIN RecommendationKeywords :
        Contains(ToLower(line), ToLower(RecommendationKeywords[i]))

RECURSIVE RecommendationLines(_)
RecommendationLines(lines) ==
    IF lines = <<>> THEN <<>>
    ELSE LET line == TrimSpace(Head(lines))
         IN  (IF HasRecommendationKeyword(line) /\ Len(line) > 0 THEN <<line>> ELSE <<>>)
                 \o RecommendationLines(Tail(lines))

finalizeGuideline(guideline, text) ==
    LET explicit == ExplicitObjective(guideline.Objective, text, ObjectiveKeywords)
        objective == IF explicit = <<>> THEN TrimSpace(Split(text, ".")[1]) ELSE explicit
    IN  [guideline EXCEPT !.Objective = objective,
                          !.Recommendations = @ \o RecommendationLines(Split(text, "\n"))]

(***************************************************************************)
(* segmenter.go: extractMetadata and its patterns.                         *)
(***************************************************************************)
K_titleLabel ==
    <<"t", "i", "t", "l", "e", ":">>

K_authorLabel ==
    <<"a", "u", "t", "h", "o", "r", ":">>

K_by ==
    <<"b", "y">>

K_version ==
    <<"v", "e", "r", "s", "i", "o", "n">>

K_v ==
    <<"v">>

K_publishedLabel ==
    <<"p", "u", "b", "l", "i", "s", "h", "e", "d", ":">>

K_publication ==
    <<"p", "u", "b", "l", "i", "c", "a", "t", "i", "o", "n">>

K_dateLabel ==
    <<"d", "a", "t", "e", ":">>

TitleWords ==
    <<<<"s", "t", "a", "n", "d", "a", "r", "d">>,
      <<"f", "r", "a", "m", "e", "w", "o", "r", "k">>,
      <<"g", "u", "i", "d", "e", "l", "i", "n", "e", "s">>,
      <<"g", "u", "i", "d", "e", "l", "i", "n", "e">>,
      <<"r", "e", "q", "u", "i", "r", "e", "m", "e", "n", "t", "s">>,
      <<"r", "e", "q", "u", "i", "r", "e", "m", "e", "n", "t">>>>

Months ==
    <<<<"j", "a", "n", "u", "a", "r", "y">>,
      <<"f", "e", "b", "r", "u", "a", "r", "y">>,
      <<"m", "a", "r", "c", "h">>,
      <<"a", "p", "r", "i", "l">>,
      <<"m", "a", "y">>,
      <<"j", "u", "n", "e">>,
      <<"j", "u", "l", "y">>,
      <<"a", "u", "g", "u", "s", "t">>,
      <<"s", "e", "p", "t", "e", "m", "b", "e", "r">>,
      <<"o", "c", "t", "o", "b", "e", "r">>,
      <<"n", "o", "v", "e", "m", "b", "e", "r">>,
      <<"d", "e", "c", "e", "m", "b", "e", "r">>>>

S_Untitled ==
    <<"U", "n", "t", "i", "t", "l", "e", "d", " ", "D", "o", "c", "u", "m", "e", "n",
      "t">>

S_Unknown ==
    <<"U", "n", "k", "n", "o", "w", "n">>

S_AutoDescription ==
    <<"A", "u", "t", "o", "m", "a", "t", "i", "c", "a", "l", "l", "y", " ", "e", "x",
      "t", "r", "a", "c", "t", "e", "d", " ", "f", "r", "o", "m", " ", "P", "D", "F">>

\* (?i)^label\s*(.+)
MatchLabel(text, label) ==
    IF OccursAt(Fold(text), label, 1) THEN RestAfterSpaces(text, Len(label), 0) ELSE <<>>

\* (\s+Version|\s+v\.|$) right after position e.
TitleTailAt(text, e) ==
    LET w == RunEnd(text, e + 1, Spaces)
    IN  \/ e = Len(text)
        \/ /\ w >= e + 1
           /\ \/ OccursAt(Fold(text), K_version, w + 1)
              \/ OccursAt(Fold(text), K_v \o <<".">>, w + 1)

\* (?i)^(.+?)(Standard|Framework|Guidelines?|Requirements?)(\s+Version|\s+v\.|$):
\* the shortest prefix that a keyword and the tail follow.
MatchTitleKeyword(text) ==
    LET ns == {n \in 1..Len(text) :
                  /\ \A k \in 1..n : text[k] # "\n"
                  /\ \E i \in DOMAIN TitleWords :
                        /\ OccursAt(Fold(text), TitleWords[i], n + 1)
                        /\ TitleTailAt(text, n + Len(TitleWords[i]))}
    IN  IF ns = {} THEN <<>>
        ELSE <<SubSeq(text, 1, CHOOSE n \in ns : \A m \in ns : n <= m)>>

\* [0-9]+\.[0-9]+(?:\.[0-9]+)? at position i: the position of its last character, or 0.
NumberEnd(text, i) ==
    LET d1 == RunEnd(text, i, Digits)
        d2 == RunEnd(text, d1 + 2, Digits)
        d3 == RunEnd(text, d2 + 2, Digits)
    IN  IF ~(d1 >= i /\ d1 + 1 <= Len(text) /\ text[d1 + 1] = "." /\ d2 >= d1 + 2) THEN 0
        ELSE IF d2 + 1 <= Len(text) /\ text[d2 + 1] = "." /\ d3 >= d2 + 2 THEN d3
        ELSE d2

\* (?i)version\s*:?\s*(number) tried at position p: where the number starts, or 0.
VersionWordAt(text, p) ==
    LET w1 == RunEnd(text, p + Len(K_version), Spaces)
        w2 == IF w1 + 1 <= Len(text) /\ text[w1 + 1] = ":"
              THEN RunEnd(text, w1 + 2, Spaces) ELSE w1
    IN  IF OccursAt(Fold(text), K_version, p) /\ NumberEnd(text, w2 + 1) > 0
        THEN w2 + 1 ELSE 0

\* (?i)v\.?\s*(number) tried at position p: where the number starts, or 0.
VersionLetterAt(text, p) ==
    LET c == IF p + 1 <= Len(text) /\ text[p + 1] = "." THEN p + 1 ELSE p
        w == RunEnd(text, c + 1, Spaces)
    IN  IF OccursAt(Fold(text), K_v, p) /\ NumberEnd(text, w + 1) > 0
        THEN w + 1 ELSE 0

\* The loop over VersionPatterns: the leftmost match of the first pattern that matches.
FindVersion(text) ==
    LET ps1 == {p \in 1..Len(text) : VersionWordAt(text, p) > 0}
        ps2 == {p \in 1..Len(text) : VersionLetterAt(text, p) > 0}
        p1 == CHOOSE p \in ps1 : \A q \in ps1 : p <= q
        p2 == CHOOSE p \in ps2 : \A q \in ps2 : p <= q
    IN  IF ps1 # {}
        THEN <<SubSeq(text, VersionWordAt(text, p1), NumberEnd(text, VersionWordAt(text, p1)))>>
        ELSE IF ps2 # {}
        THEN <<SubSeq(text, VersionLetterAt(text, p2),
                      NumberEnd(text, VersionLetterAt(text, p2)))>>
        ELSE <<>>

\* The loop over AuthorPatterns: (?i)^author:\s*(.+), then (?i)^by\s+(.+).
FindAuthor(text) ==
    IF MatchLabel(text, K_authorLabel) # <<>> THEN MatchLabel(text, K_authorLabel)
    ELSE IF OccursAt(Fold(text), K_by, 1) THEN RestAfterSpaces(text, Len(K_by), 1)
    ELSE <<>>

\* (?i)(?:published|publication\s+date):\s*(.+) tried at position p.
PublishedAt(text, p) ==
    LET w == RunEnd(text, p + Len(K_publication), Spaces)
    IN  IF OccursAt(Fold(text), K_publishedLabel, p)
        THEN RestAfterSpaces(text, p + Len(K_publishedLabel) - 1, 0)
        ELSE IF /\ OccursAt(Fold(text), K_publication, p)
                /\ w >= p + Len(K_publication)
                /\ OccursAt(Fold(text), K_dateLabel, w + 1)
        THEN RestAfterSpaces(text, w + Len(K_dateLabel), 0)
        ELSE <<>>

\* (?i)(January|...|December)\s+\d{1,2},?\s+\d{4} tried at position p: the month, or <<>>.
MonthDateAt(text, p) ==
    LET ms == {i \in DOMAIN Months : OccursAt(Fold(text), Months[i], p)}
        e == p + Len(Months[CHOOSE i \in ms : TRUE]) - 1
        w == RunEnd(text, e + 1, Spaces)
        DayOK(k) ==
            LET c == IF w + k + 1 <= Len(text) /\ text[w + k + 1] = "," THEN w + k + 1 ELSE w + k
                y == RunEnd(text, c + 1, Spaces)
            IN  /\ w + k <= Len(text)
                /\ \A x \in (w + 1)..(w + k) : text[x] \in Digits
                /\ y >= c + 1
                /\ y + 4 <= Len(text)
                /\ \A x \in (y + 1)..(y + 4) : text[x] \in Digits
    IN  IF ms # {} /\ w >= e + 1 /\ (DayOK(1) \/ DayOK(2))
        THEN <<SubSeq(text, p, e)>> ELSE <<>>

\* The loop over PublicationPatterns: the last capture group of the first that matches.
FindPublication(text) ==
    LET ps1 == {p \in 1..Len(text) : PublishedAt(text, p) # <<>>}
        ps2 == {p \in 1..Len(text) : MonthDateAt(text, p) # <<>>}
    IN  IF ps1 # {} THEN PublishedAt(text, CHOOSE p \in ps1 : \A q \in ps1 : p <= q)
        ELSE IF ps2 # {} THEN MonthDateAt(text, CHOOSE p \in ps2 : \A q \in ps2 : p <= q)
        ELSE <<>>

\* The title of one block: the title patterns, then a level-1 heading itself.
FindTitle(block) ==
    LET m1 == MatchLabel(block.Text, K_titleLabel)
        m2 == MatchTitleKeyword(block.Text)
        t == IF m1 # <<>> THEN TrimSpace(m1[1])
             ELSE IF m2 # <<>> THEN TrimSpace(m2[1]) ELSE <<>>
    IN  IF t = <<>> /\ block.Type = "heading" /\ block.Level = 1 THEN block.Text ELSE t

\* The body of the loop of extractMetadata over the blocks.
MetaBlock(meta, block) ==
    [meta EXCEPT
        !.Title = IF @ = <<>> THEN FindTitle(block) ELSE @,
        !.Version = IF @ = <<>> /\ FindVersion(block.Text) # <<>>
                    THEN FindVersion(block.Text)[1] ELSE @,
        !.Author = IF @ = <<>> /\ FindAuthor(block.Text) # <<>>
                   THEN TrimSpace(FindAuthor(block.Text)[1]) ELSE @,
        !.PublicationDate = IF @ = <<>> /\ FindPublication(block.Text) # <<>>
                            THEN TrimSpace(FindPublication(block.Text)[1]) ELSE @]

RECURSIVE MetaBlocks(_, _)
MetaBlocks(meta, blocks) ==
    IF blocks = <<>> THEN meta ELSE MetaBlocks(MetaBlock(meta, Head(blocks)), Tail(blocks))

RECURSIVE MetaPages(_, _, _)
MetaPages(meta, pages, i) ==
    IF i > Len(pages) \/ i > 5 THEN meta
    ELSE MetaPages(MetaBlocks(meta, pages[i].Blocks), pages, i + 1)

extractMetadata(doc) ==
    LET meta == MetaPages(NewDocumentMetadata(doc.Metadata.DocumentID, <<>>, <<>>, <<>>, <<>>),
                          doc.Pages, 1)
    IN  [meta EXCEPT !.Title = IF @ = <<>> THEN S_Untitled ELSE @,
                     !.Author = IF @ = <<>> THEN S_Unknown ELSE @,
                     !.Description = IF @ = <<>> THEN S_AutoDescription ELSE @]

(***************************************************************************)
(* segmenter.go: extractFrontMatter.                                       *)
(***************************************************************************)
\* The blocks of all pages, in reading order.
RECURSIVE AllBlocks(_)
AllBlocks(pages) ==
    IF pages = <<>> THEN <<>> ELSE Head(pages).Blocks \o AllBlocks(Tail(pages))

RECURSIVE FrontMatterLoop(_, _)
FrontMatterLoop(blocks, frontMatter) ==
    IF blocks = <<>> \/ MatchCategory(Head(blocks).Text) # <<>> THEN frontMatter
    ELSE IF Head(blocks).Type = "heading" /\ Head(blocks).Level <= 1
    THEN FrontMatterLoop(Tail(blocks), frontMatter)
    ELSE IF Head(blocks).Type = "paragraph"
    THEN FrontMatterLoop(Tail(blocks),
                         (IF Len(frontMatter) > 0 THEN frontMatter \o <<"\n", "\n">>
                                                  ELSE frontMatter) \o Head(blocks).Text)
    ELSE FrontMatterLoop(Tail(blocks), frontMatter)

extractFrontMatter(doc) == TrimSpace(FrontMatterLoop(AllBlocks(doc.Pages), <<>>))

(***************************************************************************)
(* segmenter.go: extractCategories, one block at a time.  The locals of    *)
(* the function are the fields of a record; a nil pointer is <<>>, a       *)
(* pointer to x is <<x>>.                                                  *)
(***************************************************************************)
StartCategories ==
    [categories |-> <<>>, currentCategory |-> <<>>, currentGuideline |-> <<>>,
     currentText |-> <<>>]

\* "Save previous guideline": finalize and reset, when one is open and text was collected.
SavePreviousGuideline(st) ==
    IF st.currentGuideline # <<>> /\ Len(st.currentText) > 0
    THEN [st EXCEPT !.currentGuideline = <<finalizeGuideline(@[1], st.currentText)>>,
                    !.currentText = <<>>]
    ELSE st

\* The open category with the open guideline appended to it, if there is one.
WithOpenGuideline(st) ==
    IF st.currentGuideline # <<>>
    THEN [st.currentCategory[1] EXCEPT !.Guidelines = Append(@, st.currentGuideline[1])]
    ELSE st.currentCategory[1]

OnCategory(st0, matches) ==
    LET st == SavePreviousGuideline(st0)
    IN  [st EXCEPT !.categories = IF st.currentCategory # <<>>
                                  THEN Append(@, WithOpenGuideline(st)) ELSE @,
                   !.currentCategory = <<NewSegmentCategory(matches[1], TrimSpace(matches[2]))>>,
                   !.currentGuideline = <<>>]

OnGuideline(st0, matches) ==
    LET st == SavePreviousGuideline(st0)
    IN  [st EXCEPT !.currentCategory = IF st.currentCategory # <<>>
                                       THEN <<WithOpenGuideline(st)>> ELSE @,
                   !.currentGuideline = <<NewSegmentGuideline(matches[1], TrimSpace(matches[2]))>>]

OnPart(st, matches) ==
    IF st.currentGuideline # <<>>
    THEN [st EXCEPT !.currentGuideline[1].Parts =
                        Append(@, NewSegmentPart(matches[1], TrimSpace(matches[2])))]
    ELSE st

OnContent(st, block) ==
    IF block.Type \in {"paragraph", "list"}
    THEN [st EXCEPT !.currentText = (IF Len(@) > 0 THEN @ \o <<"\n">> ELSE @) \o block.Text]
    ELSE st

\* One iteration of the loop: the first rule that matches decides.
OnBlock(st, block) ==
    IF MatchCategory(block.Text) # <<>> THEN OnCategory(st, MatchCategory(block.Text))
    ELSE IF MatchGuideline(block.Text) # <<>> THEN OnGuideline(st, MatchGuideline(block.Text))
    ELSE IF MatchPart(block.Text) # <<>> THEN OnPart(st, MatchPart(block.Text))
    ELSE OnContent(st, block)

\* After the loop: "Finalize last guideline and category".
FinishCategories(st0) ==
    LET st == IF st0.currentGuideline # <<>> /\ Len(st0.currentText) > 0
              THEN [st0 EXCEPT !.currentGuideline =
                                   <<finalizeGuideline(@[1], st0.currentText)>>]
              ELSE st0
    IN  IF st.currentCategory # <<>> THEN Append(st.categories, WithOpenGuideline(st))
        ELSE st.categories

RECURSIVE CategoriesLoop(_, _)
CategoriesLoop(st, blocks) ==
    IF blocks = <<>> THEN FinishCategories(st)
    ELSE CategoriesLoop(OnBlock(st, Head(blocks)), Tail(blocks))

extractCategories(doc) == CategoriesLoop(StartCategories, AllBlocks(doc.Pages))

\* segmented := &types.SegmentedDocument{...}: the segmenter's name and the time of the
\* call are recorded; categories is the slice extractCategories declared and appended
\* to, nil when it found no category.
NewSegmented(doc, sourceVersion, categories) ==
    [Metadata |-> [SourceVersion |-> sourceVersion, Segmenter |-> S_GenericSegmenter,
                   SegmentedAt |-> now, Version |-> 0,
                   DocumentID |-> doc.Metadata.DocumentID],
     DocumentMetadata |-> extractMetadata(doc),
     FrontMatter |-> extractFrontMatter(doc),
     Categories |-> categories, NilCategories |-> categories = <<>>]

\* Records no source version.
Segment_noSource(doc) == NewSegmented(doc, 0, extractCategories(doc))

Segment(doc) == NewSegmented(doc, doc.Metadata.Version, extractCategories(doc))

(***************************************************************************)
(* The file system under baseDir.  A fault names the step of a call that   *)
(* the operating system fails (permission, disk full); a failed write may  *)
(* leave the file truncated (partial) or untouched.                        *)
(***************************************************************************)
\* The step of a call that fails: os.ReadDir, os.ReadFile of the sidecars, os.MkdirAll,
\* os.WriteFile of the artifact or of the sidecar, os.ReadFile of the artifact.
SaveFaults == {"none", "readdir", "readmeta", "mkdir", "write", "sidecar"}
LoadFaults == {"none", "readdir", "readmeta", "read"}

ArtifactFile(docType) == docType \o ".json"

MkdirAll(d, id, version) == d \cup {<<id, version>>}

WriteFile(f, path, content) ==
    [p \in DOMAIN f \cup {path} |-> IF p = path THEN content ELSE f[p]]

\* os.WriteFile under a fault: O_TRUNC may already have emptied the file.
WriteFileFaulty(f, path, partial) ==
    IF partial THEN WriteFile(f, path, PartialFile) ELSE f

(***************************************************************************)
(* storage.go: StorageMetadata and its sidecar file.                       *)
(***************************************************************************)
NewStorageMetadata(id, version, docType, storedAt, size, description) ==
    [DocumentID |-> id, Version |-> version, Type |-> docType, StoredAt |-> storedAt,
     Size |-> size, Description |-> description]

MarshalMeta(meta) ==
    [ok |-> TRUE,
     json |-> [document_id |-> meta.DocumentID, version |-> meta.Version,
               type |-> meta.Type, stored_at |-> meta.StoredAt, size |-> meta.Size,
               description |-> meta.Description]]

UnmarshalMeta(data) ==
    [DocumentID |-> data.json.document_id, Version |-> data.json.version,
     Type |-> data.json.type, StoredAt |-> data.json.stored_at, Size |-> data.json.size,
     Description |-> data.json.description]

\* len(data) of json.MarshalIndent(meta, "", "  "); no checksum is ever set.
MetaLen(json) ==
    ObjectLen(0, <<Member(0, "document_id", StringLen(json.document_id)),
                   Member(0, "version", IntLen(json.version)),
                   Member(0, "type", NameLen(json.type)),
                   Member(0, "stored_at", TimeLen(json.stored_at)),
                   Member(0, "size", IntLen(json.size))>>
                 \o OmitEmpty(json.description = <<>>,
                              Member(0, "description", StringLen(json.description))))

\* The number of bytes of a file of a version directory.
FileLen(f, path) ==
    IF path \notin DOMAIN f THEN 0
    ELSE IF ~f[path].ok THEN f[path].len
    ELSE IF path[3] = ArtifactFile("parsed") THEN ParsedLen(f[path].json)
    ELSE IF path[3] = ArtifactFile("segmented") THEN SegmentedLen(f[path].json)
    ELSE MetaLen(f[path].json)

\* The write of os.WriteFile, taken apart from its open: n bytes go to offset 0 of the
\* file as it is by then.  When another open and write came between, the bytes of a
\* longer content stay behind the new ones and the file is no JSON document.
WriteAt(f, path, content, n) ==
    IF FileLen(f, path) <= n THEN WriteFile(f, path, content)
    ELSE WriteFile(f, path, BrokenFile(FileLen(f, path)))

SidecarFile_generic(docType) == "metadata.json"

SidecarFile(docType) == "metadata-" \o docType \o ".json"

\* saveMetadataWithType: [files, err]
saveMetadataWithType(f, id, version, meta, docType, fault, partial) ==
    LET metaPath == <<id, version, SidecarFile(docType)>>
    IN  IF fault = "sidecar"
        THEN [files |-> WriteFileFaulty(f, metaPath, partial), err |-> "IO"]
        ELSE [files |-> WriteFile(f, metaPath, MarshalMeta(meta)), err |-> "nil"]

(***************************************************************************)
(* storage.go: ListVersions, getLatestVersion, getNextVersion.             *)
(***************************************************************************)
\* os.ReadDir(intermediate/{id}): the version directories, by name.
VersionDirs(d, id) == {e[2] : e \in {x \in d : x[1] = id}}

RECURSIVE AscSeq(_)
AscSeq(S) ==
    IF S = {} THEN <<>>
    ELSE LET m == CHOOSE x \in S : \A y \in S : x <= y
         IN  <<m>> \o AscSeq(S \ {m})

\* The metadata file ListVersions reads in one version directory, if any.
SidecarPath(f, id, version, docType) ==
    LET typed == <<id, version, IF docType # "" THEN SidecarFile(docType) ELSE "metadata.json">>
        generic == <<id, version, "metadata.json">>
    IN  IF typed \in DOMAIN f THEN <<typed>>
        ELSE IF docType # "" /\ generic \in DOMAIN f THEN <<generic>>
        ELSE <<>>

\* One iteration of the loop of ListVersions: the metas after directory `version`.
\* A sidecar that is missing, unreadable or no JSON is passed over.
ListEntry(f, id, version, docType, metas, fault) ==
    LET found == SidecarPath(f, id, version, docType)
    IN  IF found = <<>> \/ fault = "readmeta" THEN metas
        ELSE IF ~f[found[1]].ok THEN metas
        ELSE LET meta == UnmarshalMeta(f[found[1]])
             IN  IF docType = "" \/ meta.Type = docType THEN Append(metas, meta) ELSE metas

RECURSIVE ListLoop(_, _, _, _, _, _)
ListLoop(f, id, entries, docType, metas, fault) ==
    IF entries = <<>> THEN metas
    ELSE ListLoop(f, id, Tail(entries), docType,
                  ListEntry(f, id, Head(entries), docType, metas, fault), fault)

\* sort.Slice(metas, Version descending), as an insertion sort.
RECURSIVE InsertDesc_ascending(_, _)
InsertDesc_ascending(sorted, meta) ==
    IF sorted = <<>> THEN <<meta>>
    ELSE IF meta.Version < Head(sorted).Version THEN <<meta>> \o sorted
    ELSE <<Head(sorted)>> \o InsertDesc_ascending(Tail(sorted), meta)

\* sort.Slice sorts a slice of at most 12 elements by insertion: the next element
\* moves left while less(it, the one before it) holds, so equal elements keep the
\* order they had.  The inner loop, for less = Version greater:
RECURSIVE InsertDesc(_, _)
InsertDesc(sorted, meta) ==
    IF sorted = <<>> THEN <<meta>>
    ELSE IF meta.Version > sorted[Len(sorted)].Version
    THEN InsertDesc(SubSeq(sorted, 1, Len(sorted) - 1), meta) \o <<sorted[Len(sorted)]>>
    ELSE sorted \o <<meta>>

\* The outer loop: the elements are inserted from left to right.
RECURSIVE SortDesc(_)
SortDesc(metas) ==
    IF metas = <<>> THEN <<>>
    ELSE InsertDesc(SortDesc(SubSeq(metas, 1, Len(metas) - 1)), metas[Len(metas)])

ListVersions(d, f, id, docType, fault) ==
    IF VersionDirs(d, id) = {} THEN [metas |-> <<>>, err |-> "nil"]
    ELSE IF fault = "readdir" THEN [metas |-> <<>>, err |-> "IO"]
    ELSE [metas |-> SortDesc(ListLoop(f, id, AscSeq(VersionDirs(d, id)), docType, <<>>,
                                      fault)),
          err |-> "nil"]

getLatestVersion_first(d, f, id, docType, fault) ==
    LET r == ListVersions(d, f, id, docType, fault)
    IN  IF r.err # "nil" \/ Len(r.metas) = 0 THEN 0 ELSE 1

getLatestVersion(d, f, id, docType, fault) ==
    LET r == ListVersions(d, f, id, docType, fault)
    IN  IF r.err # "nil" \/ Len(r.metas) = 0 THEN 0 ELSE r.metas[1].Version

\* Numbering by the version directories instead of by the sidecars.
getNextVersion_dirs(d, f, id, docType, fault) == Cardinality(VersionDirs(d, id)) + 1

getNextVersion(d, f, id, docType, fault) == getLatestVersion(d, f, id, docType, fault) + 1

(***************************************************************************)
(* storage.go: SaveParsed, SaveSegmented, SaveSegmentedWithLabel.  Each    *)
(* returns the directories and files it leaves, the caller's document and  *)
(* the error.  The three functions repeat the same steps.                  *)
(***************************************************************************)
Marshal(doc, docType) ==
    IF docType = "parsed" THEN MarshalParsed(doc) ELSE MarshalSegmented(doc)

saveVersioned(d, f, doc0, docType, description, fault, partial) ==
    LET id == doc0.Metadata.DocumentID
        version == getNextVersion(d, f, id, docType, fault)
        doc == SetVersion(doc0, version)
        filePath == <<id, version, ArtifactFile(docType)>>
        data == Marshal(doc, docType)
        meta == NewStorageMetadata(id, version, docType, now, ByteLen(data, docType),
                                   description)
    IN  IF fault = "mkdir"
        THEN [dirs |-> d, files |-> f, doc |-> doc, err |-> "IO"]
        ELSE IF fault = "write"
        THEN [dirs |-> MkdirAll(d, id, version),
              files |-> WriteFileFaulty(f, filePath, partial), doc |-> doc, err |-> "IO"]
        ELSE LET m == saveMetadataWithType(WriteFile(f, filePath, data), id, version, meta,
                                           docType, fault, partial)
             IN  [dirs |-> MkdirAll(d, id, version), files |-> m.files, doc |-> doc,
                  err |-> m.err]

SaveParsed(d, f, doc, fault, partial) ==
    saveVersioned(d, f, doc, "parsed", <<>>, fault, partial)

SaveSegmented(d, f, doc, fault, partial) ==
    saveVersioned(d, f, doc, "segmented", <<>>, fault, partial)

SaveSegmentedWithLabel(d, f, doc, label, fault, partial) ==
    saveVersioned(d, f, doc, "segmented", label, fault, partial)

(***************************************************************************)
(* storage.go: LoadParsed, LoadSegmented.  os.ReadFile of a missing file   *)
(* gives an error that wraps fs.ErrNotExist ("NotExist"); any other read   *)
(* failure is "IO"; a file that is no JSON is "Decode".                    *)
(***************************************************************************)
loadVersioned(d, f, id, version0, docType, fault) ==
    LET version == IF version0 = 0 THEN getLatestVersion(d, f, id, docType, fault)
                   ELSE version0
        filePath == <<id, version, ArtifactFile(docType)>>
    IN  IF filePath \notin DOMAIN f THEN [err |-> "NotExist"]
        ELSE IF fault = "read" THEN [err |-> "IO"]
        ELSE IF ~f[filePath].ok THEN [err |-> "Decode"]
        ELSE [err |-> "nil",
              doc |-> IF docType = "parsed" THEN UnmarshalParsed(f[filePath])
                      ELSE UnmarshalSegmented(f[filePath])]

LoadParsed(d, f, id, version, fault) == loadVersioned(d, f, id, version, "parsed", fault)

LoadSegmented(d, f, id, version, fault) == loadVersioned(d, f, id, version, "segmented", fault)

(***************************************************************************)
(* storage.go: SaveFinal, LoadFinal.                                       *)
(***************************************************************************)
FinalExts == <<"yaml", "yml", "json">>

\* The extension SaveFinal writes under: "yaml" and "yml" both give {id}.yaml.
SaveFinalExt(format) == IF format \in {"yaml", "yml"} THEN "yaml" ELSE format

\* [files, err]
SaveFinal(ff, id, data, format, fault, partial) ==
    IF fault = "mkdir" THEN [files |-> ff, err |-> "IO"]
    ELSE IF format \notin {"yaml", "yml", "json"} THEN [files |-> ff, err |-> "Unsupported"]
    ELSE LET ext == SaveFinalExt(format)
             fileData == [ok |-> TRUE, enc |-> IF format = "json" THEN "json" ELSE "yaml",
                          value |-> data]
         IN  IF fault = "write"
             THEN [files |-> WriteFileFaulty(ff, <<id, ext>>, partial), err |-> "IO"]
             ELSE [files |-> WriteFile(ff, <<id, ext>>, fileData), err |-> "nil"]

\* var doc layer1.GuidanceDocument
ZeroGuidanceDocument ==
    [Metadata |-> [Id |-> <<>>, Title |-> <<>>, Description |-> <<>>, Author |-> <<>>,
                   Version |-> <<>>, PublicationDate |-> <<>>, DocumentType |-> <<>>,
                   Applicability |-> <<>>, MappingReferences |-> <<>>],
     FrontMatter |-> <<>>, Categories |-> <<>>,
     ImportedGuidelines |-> <<>>, ImportedPrinciples |-> <<>>]

RECURSIVE LoadFinalLoop(_, _, _, _)
LoadFinalLoop(ff, id, exts, fault) ==
    IF exts = <<>> THEN [err |-> "NotFound"]
    ELSE IF <<id, Head(exts)>> \notin DOMAIN ff THEN LoadFinalLoop(ff, id, Tail(exts), fault)
    ELSE IF fault = "read" THEN [err |-> "IO"]
    ELSE IF ~ff[<<id, Head(exts)>>].ok
    THEN \* the file a failed write left empty: json.Unmarshal fails on it,
         \* yaml.Unmarshal finds no document, leaves doc as declared and returns nil
         IF Head(exts) = "json" THEN [err |-> "Decode"]
         ELSE [err |-> "nil", doc |-> ZeroGuidanceDocument]
    ELSE [err |-> "nil", doc |-> ff[<<id, Head(exts)>>].value]

LoadFinal(ff, id, fault) == LoadFinalLoop(ff, id, FinalExts, fault)

(***************************************************************************)
(* converter.go: the structural mapping to the layer1 GuidanceDocument.    *)
(* A nil pointer field (Applicability, Rationale) is the empty sequence.   *)
(***************************************************************************)
convertPart(part) ==
    [Id |-> part.ID, Title |-> part.Title, Text |-> part.Text,
     Recommendations |-> part.Recommendations]

convertGuideline(guide) ==
    [Id |-> guide.ID, Title |-> guide.Title, Objective |-> guide.Objective,
     Recommendations |-> guide.Recommendations,
     GuidelineParts |-> [k \in 1..Len(guide.Parts) |-> convertPart(guide.Parts[k])],
     Rationale |-> <<>>, GuidelineMappings |-> <<>>, PrincipleMappings |-> <<>>]

convertCategory_noDescription(cat) ==
    [Id |-> cat.ID, Title |-> cat.Title, Description |-> <<>>,
     Guidelines |-> [j \in 1..Len(cat.Guidelines) |-> convertGuideline(cat.Guidelines[j])]]

convertCategory(cat) ==
    [Id |-> cat.ID, Title |-> cat.Title, Description |-> cat.Description,
     Guidelines |-> [j \in 1..Len(cat.Guidelines) |-> convertGuideline(cat.Guidelines[j])]]

convertMetadata(meta) ==
    [Id |-> meta.ID, Title |-> meta.Title, Description |-> meta.Description,
     Author |-> meta.Author, Version |-> meta.Version,
     PublicationDate |-> meta.PublicationDate,
     DocumentType |-> IF meta.DocumentType # <<>> THEN meta.DocumentType ELSE <<>>,
     Applicability |->
        IF Len(meta.IndustrySectors) > 0 \/ Len(meta.Jurisdictions) > 0
        THEN <<[IndustrySectors |-> meta.IndustrySectors,
                Jurisdictions |-> meta.Jurisdictions]>>
        ELSE <<>>,
     MappingReferences |-> <<>>]

\* Convert of a non-nil document (the nil guard returns an error before any mapping).
Convert(doc) ==
    [Metadata |-> convertMetadata(doc.DocumentMetadata),
     FrontMatter |-> doc.FrontMatter,
     Categories |-> [i \in 1..Len(doc.Categories) |-> convertCategory(doc.Categories[i])],
     ImportedGuidelines |-> <<>>, ImportedPrinciples |-> <<>>]

(***************************************************************************)
(* validator.go: Validate.  A result is [Valid, Errors]; every AddError    *)
(* appends one [Path, Message] and clears Valid.  Paths are built as the   *)
(* code builds them, with 0-based indices.                                 *)
(***************************************************************************)
S_Standard == <<"S", "t", "a", "n", "d", "a", "r", "d">>
S_Regulation == <<"R", "e", "g", "u", "l", "a", "t", "i", "o", "n">>
S_BestPractice == <<"B", "e", "s", "t", " ", "P", "r", "a", "c", "t", "i", "c", "e">>
S_Framework == <<"F", "r", "a", "m", "e", "w", "o", "r", "k">>

ValidDocumentTypes == {S_Standard, S_Regulation, S_BestPractice, S_Framework}

NewValidationResult == [Valid |-> TRUE, Errors |-> <<>>]

AddError(result, path, message) ==
    [Valid |-> FALSE, Errors |-> Append(result.Errors, [Path |-> path, Message |-> message])]

\* A validator that reports the first violation only.
AddErrorIf_first(result, cond, path, message) ==
    IF cond /\ result.Valid THEN AddError(result, path, message) ELSE result

\* if cond { result.AddError(path, message, ...) }
AddErrorIf(result, cond, path, message) ==
    IF cond THEN AddError(result, path, message) ELSE result

\* Indices counted from 1.
Idx_oneBased(name, i) == name \o "[" \o ToString(i + 1) \o "]"

Idx(name, i) == name \o "[" \o ToString(i) \o "]"

validateMappingReference(ref, path, result) ==
    LET r1 == AddErrorIf(result, ref.Id = <<>>, path \o ".id", "required field is empty")
        r2 == AddErrorIf(r1, ref.Title = <<>>, path \o ".title", "required field is empty")
    IN  AddErrorIf(r2, ref.Version = <<>>, path \o ".version", "required field is empty")

RECURSIVE validateMappingReferences(_, _, _)
validateMappingReferences(refs, i, result) ==
    IF i > Len(refs) THEN result
    ELSE validateMappingReferences(refs, i + 1,
            validateMappingReference(refs[i], Idx("metadata.mapping-references", i - 1), result))

validateMetadata(meta, strict, result) ==
    LET r1 == AddErrorIf(result, meta.Id = <<>>, "metadata.id", "required field is empty")
        r2 == AddErrorIf(r1, meta.Title = <<>>, "metadata.title", "required field is empty")
        r3 == AddErrorIf(r2, meta.Description = <<>>, "metadata.description",
                         "required field is empty")
        r4 == AddErrorIf(r3, meta.Author = <<>>, "metadata.author", "required field is empty")
        r5 == IF meta.DocumentType # <<>>
              THEN AddErrorIf(r4, meta.DocumentType \notin ValidDocumentTypes,
                              "metadata.document-type",
                              "must be one of: Standard, Regulation, Best Practice, Framework")
              ELSE AddErrorIf(r4, strict, "metadata.document-type",
                              "required field is empty (strict mode)")
    IN  validateMappingReferences(meta.MappingReferences, 1, r5)

validatePart(part, path, result) ==
    LET r1 == AddErrorIf(result, part.Id = <<>>, path \o ".id", "required field is empty")
    IN  AddErrorIf(r1, part.Text = <<>>, path \o ".text", "required field is empty")

\* The ids of all the other elements.
SeenIds_others(seq, i) == {seq[k].Id : k \in DOMAIN seq \ {i}}

\* The ids of the elements before position i: the seen-map of the loops.
SeenIds(seq, i) == {seq[k].Id : k \in 1..(i - 1)}

RECURSIVE validateParts_noDuplicates(_, _, _, _)
\* Without the seen-map of the part ids.
validateParts_noDuplicates(parts, i, path, result) ==
    IF i > Len(parts) THEN result
    ELSE validateParts_noDuplicates(parts, i + 1, path,
                                    validatePart(parts[i],
                                                 path \o "." \o Idx("guideline-parts", i - 1),
                                                 result))

RECURSIVE validateParts(_, _, _, _)
validateParts(parts, i, path, result) ==
    IF i > Len(parts) THEN result
    ELSE LET partPath == path \o "." \o Idx("guideline-parts", i - 1)
             r1 == AddErrorIf(result,
                              parts[i].Id # <<>> /\ parts[i].Id \in SeenIds(parts, i),
                              partPath \o ".id", "duplicate part ID within guideline")
         IN  validateParts(parts, i + 1, path, validatePart(parts[i], partPath, r1))

RECURSIVE validateTitled(_, _, _, _)
\* The risks or outcomes of a rationale: title and description required.
validateTitled(items, i, path, result) ==
    IF i > Len(items) THEN result
    ELSE LET p == Idx(path, i - 1)
             r1 == AddErrorIf(result, items[i].Title = <<>>, p \o ".title",
                              "required field is empty")
             r2 == AddErrorIf(r1, items[i].Description = <<>>, p \o ".description",
                              "required field is empty")
         IN  validateTitled(items, i + 1, path, r2)

validateRationale(rat, path, result) ==
    validateTitled(rat.Outcomes, 1, path \o ".outcomes",
                   validateTitled(rat.Risks, 1, path \o ".risks", result))

RECURSIVE validateEntries(_, _, _, _)
validateEntries(entries, i, path, result) ==
    IF i > Len(entries) THEN result
    ELSE LET entryPath == path \o "." \o Idx("entries", i - 1)
             r1 == AddErrorIf(result, entries[i].ReferenceId = <<>>,
                              entryPath \o ".reference-id", "required field is empty")
             r2 == AddErrorIf(r1, entries[i].Strength < 0 \/ entries[i].Strength > 100,
                              entryPath \o ".strength", "should be between 0 and 100")
         IN  validateEntries(entries, i + 1, path, r2)

validateMapping(mapping, path, result) ==
    validateEntries(mapping.Entries, 1, path,
                    AddErrorIf(result, mapping.ReferenceId = <<>>, path \o ".reference-id",
                               "required field is empty"))

RECURSIVE validateMappings(_, _, _, _)
validateMappings(mappings, i, path, result) ==
    IF i > Len(mappings) THEN result
    ELSE validateMappings(mappings, i + 1, path,
                          validateMapping(mappings[i], Idx(path, i - 1), result))

validateGuideline(guide, path, result) ==
    LET r1 == AddErrorIf(result, guide.Id = <<>>, path \o ".id", "required field is empty")
        r2 == AddErrorIf(r1, guide.Title = <<>>, path \o ".title", "required field is empty")
        r3 == IF guide.Rationale # <<>>
              THEN validateRationale(guide.Rationale[1], path \o ".rationale", r2)
              ELSE r2
        r4 == validateParts(guide.GuidelineParts, 1, path, r3)
        r5 == validateMappings(guide.GuidelineMappings, 1, path \o ".guideline-mappings", r4)
    IN  validateMappings(guide.PrincipleMappings, 1, path \o ".principle-mappings", r5)

RECURSIVE validateGuidelines(_, _, _, _)
validateGuidelines(guides, i, path, result) ==
    IF i > Len(guides) THEN result
    ELSE LET guidePath == path \o "." \o Idx("guidelines", i - 1)
             r1 == AddErrorIf(result,
                              guides[i].Id # <<>> /\ guides[i].Id \in SeenIds(guides, i),
                              guidePath \o ".id", "duplicate guideline ID within category")
         IN  validateGuidelines(guides, i + 1, path, validateGuideline(guides[i], guidePath, r1))

validateCategory(cat, path, result) ==
    LET r1 == AddErrorIf(result, cat.Id = <<>>, path \o ".id", "required field is empty")
        r2 == AddErrorIf(r1, cat.Title = <<>>, path \o ".title", "required field is empty")
        r3 == AddErrorIf(r2, cat.Description = <<>>, path \o ".description",
                         "required field is empty")
    IN  validateGuidelines(cat.Guidelines, 1, path, r3)

RECURSIVE validateCategoryLoop(_, _, _)
validateCategoryLoop(categories, i, result) ==
    IF i > Len(categories) THEN result
    ELSE LET path == Idx("categories", i - 1)
             r1 == AddErrorIf(result,
                              categories[i].Id # <<>>
                                  /\ categories[i].Id \in SeenIds(categories, i),
                              path \o ".id", "duplicate category ID")
             r2 == validateCategory(categories[i], path, r1)
         IN  \* the result of this category is computed before the next iteration, as
             \* in the loop of the code: r ranges over the one value of r2
             CHOOSE out \in {validateCategoryLoop(categories, i + 1, r) : r \in {r2}} : TRUE

\* No rule about an empty list of categories.
validateCategories_anyLength(categories, result) ==
    validateCategoryLoop(categories, 1, result)

validateCategories(categories, result) ==
    IF Len(categories) = 0
    THEN AddError(result, "categories", "document must have at least one category")
    ELSE validateCategoryLoop(categories, 1, result)

\* Validate of a non-nil document with the validator's strict flag.
Validate(doc, strict) ==
    LET r1 == validateMetadata(doc.Metadata, strict, NewValidationResult)
        r2 == validateCategories(doc.Categories, r1)
        r3 == validateMappings(doc.ImportedGuidelines, 1, "imported-guidelines", r2)
    IN  validateMappings(doc.ImportedPrinciples, 1, "imported-principles", r3)

\* Validate of a pointer: <<>> is nil, <<doc>> points to doc.
ValidatePointer(docPtr, strict) ==
    IF docPtr = <<>> THEN AddError(NewValidationResult, "", "document is nil")
    ELSE Validate(docPtr[1], strict)

(***************************************************************************)
(* converter.go: ConvertAndValidate of a non-nil document.                 *)
(***************************************************************************)
ConvertAndValidate(doc, strict) ==
    [doc |-> Convert(doc), result |-> Validate(Convert(doc), strict), strict |-> strict]

(***************************************************************************)
(* storage.go: validation reports and SaveFinalWithValidation.  The file   *)
(* name of a report is its stage and its time stamp cut to the second.     *)
(***************************************************************************)
NewValidationReport(id, timestamp, strict, result, sourceVersion, stage) ==
    [DocumentID |-> id, Timestamp |-> timestamp, StrictMode |-> strict,
     Valid |-> result.Valid, ErrorCount |-> Len(result.Errors), Errors |-> result.Errors,
     SourceVersion |-> sourceVersion, Stage |-> stage]

\* report.Timestamp.Format("20060102-150405")
FormatSecond(timestamp) == timestamp \div TicksPerSecond

ReportFile(report) == <<report.DocumentID, report.Stage, FormatSecond(report.Timestamp)>>

\* [files, err]
SaveValidationReport(rp, report, fault, partial) ==
    IF fault = "mkdir" THEN [files |-> rp, err |-> "IO"]
    ELSE IF fault = "write"
    THEN [files |-> WriteFileFaulty(rp, ReportFile(report), partial), err |-> "IO"]
    ELSE [files |-> WriteFile(rp, ReportFile(report), [ok |-> TRUE, json |-> report]),
          err |-> "nil"]

\* The stage names of a report, in the order os.ReadDir gives their files.
Stages == <<"convert", "enhance", "validate">>

\* os.ReadDir(validation-reports/{id}): the files by name, {stage}-{second}.json.
RECURSIVE ReportEntries(_, _, _, _)
ReportEntries(rp, id, stage, second) ==
    IF stage > Len(Stages) THEN <<>>
    ELSE IF second > MaxClock \div TicksPerSecond THEN ReportEntries(rp, id, stage + 1, 0)
    ELSE (IF <<id, Stages[stage], second>> \in DOMAIN rp
          THEN <<(<<id, Stages[stage], second>>)>> ELSE <<>>)
         \o ReportEntries(rp, id, stage, second + 1)

\* The loop of LoadValidationReports: a file that is no JSON is passed over.
RECURSIVE ReportsLoop(_, _)
ReportsLoop(rp, entries) ==
    IF entries = <<>> THEN <<>>
    ELSE (IF rp[Head(entries)].ok THEN <<rp[Head(entries)].json>> ELSE <<>>)
         \o ReportsLoop(rp, Tail(entries))

\* sort.Slice(reports, Timestamp.After): the insertion sort of a slice of at most 12
\* elements, in which reports with equal timestamps keep the order of os.ReadDir.
RECURSIVE InsertNewest(_, _)
InsertNewest(sorted, report) ==
    IF sorted = <<>> THEN <<report>>
    ELSE IF report.Timestamp > sorted[Len(sorted)].Timestamp
    THEN InsertNewest(SubSeq(sorted, 1, Len(sorted) - 1), report) \o <<sorted[Len(sorted)]>>
    ELSE sorted \o <<report>>

RECURSIVE SortNewest(_)
SortNewest(rs) ==
    IF rs = <<>> THEN <<>>
    ELSE InsertNewest(SortNewest(SubSeq(rs, 1, Len(rs) - 1)), rs[Len(rs)])

\* [reports, err]; fault "readdir": os.ReadDir fails with an error other than
\* not-exist.
LoadValidationReports(rp, id, fault) ==
    IF fault = "readdir" THEN [reports |-> <<>>, err |-> "IO"]
    ELSE [reports |-> SortNewest(ReportsLoop(rp, ReportEntries(rp, id, 1, 0))),
          err |-> "nil"]

\* report is <<>> for a nil report.  [finalFiles, reports, err]
SaveFinalWithValidation(ff, rp, id, data, format, report, fault, partial) ==
    LET final == SaveFinal(ff, id, data, format, fault, partial)
        saved == SaveValidationReport(rp, report[1],
                                      IF fault = "report" THEN "write" ELSE "none", partial)
    IN  IF final.err # "nil" THEN [finalFiles |-> final.files, reports |-> rp, err |-> final.err]
        ELSE IF report # <<>>
        THEN [finalFiles |-> final.files, reports |-> saved.files, err |-> saved.err]
        ELSE [finalFiles |-> final.files, reports |-> rp, err |-> "nil"]

(***************************************************************************)
(* main.go: cmdConvert.  The result names the error the command returns    *)
(* ("nil": none) and whether it got as far as calling SaveFinal.           *)
(***************************************************************************)
ValidationFailed_never(result) == FALSE

\* if !result.Valid
ValidationFailed(result) == ~result.Valid

cmdConvert(d, f, ff, rp, timestamp, id, sourceVersion, strict, saveReport, format) ==
    LET loaded == LoadSegmented(d, f, id, sourceVersion, "none")
        layer1Doc == Convert(loaded.doc)
        result == Validate(layer1Doc, strict)
        report == IF saveReport
                  THEN <<NewValidationReport(id, timestamp, strict, result,
                                             loaded.doc.Metadata.Version, "convert")>>
                  ELSE <<>>
        saved == SaveFinalWithValidation(ff, rp, id, layer1Doc, format, report, "none", FALSE)
    IN  IF id = <<>>
        THEN [finalFiles |-> ff, reports |-> rp, err |-> "Usage", savedFinal |-> FALSE]
        ELSE IF loaded.err # "nil"
        THEN [finalFiles |-> ff, reports |-> rp, err |-> "Load", savedFinal |-> FALSE]
        ELSE IF ValidationFailed(result)
        THEN [finalFiles |-> ff,
              reports |-> IF report # <<>>
                          THEN SaveValidationReport(rp, report[1], "none", FALSE).files
                          ELSE rp,
              err |-> "Validation", savedFinal |-> FALSE]
        ELSE [finalFiles |-> saved.finalFiles, reports |-> saved.reports,
              err |-> IF saved.err = "nil" THEN "nil" ELSE "Save", savedFinal |-> TRUE]

(***************************************************************************)
(* The documents the callers of the store pass in.                         *)
(***************************************************************************)
SamplePages == {<<>>, <<NewPage(1, <<>>)>>}

SampleDocMeta == NewDocumentMetadata(S_Test, S_Test, S_Test, S_Test, <<>>)

SampleCategory ==
    [ID |-> <<"1">>, Title |-> S_Test, Description |-> S_Test, Guidelines |-> <<>>]

SampleCategories == {<<>>, <<SampleCategory>>}

SampleSegmented(id, categories) ==
    NewSegmentedDocument(id, 0, SampleDocMeta, <<>>, categories)

SampleFinals == {Convert(SampleSegmented(D1, c)) : c \in SampleCategories}

Formats == {"yaml", "yml", "json", "xml"}

(***************************************************************************)
(* The calls on the store, each the whole call.                            *)
(***************************************************************************)
\* Whether the call reaches the step that the fault is about: reading a directory or
\* a file fails only if it is there (a missing one is the not-exist case).
ListFaultApplies(id, docType, fault) ==
    \/ fault = "none"
    \/ fault = "readdir" /\ VersionDirs(dirs, id) # {}
    \/ fault = "readmeta" /\ \E v \in VersionDirs(dirs, id) :
                                  SidecarPath(files, id, v, docType) # <<>>

SaveFaultApplies(id, docType, fault) ==
    fault \in {"mkdir", "write", "sidecar"} \/ ListFaultApplies(id, docType, fault)

LoadFaultApplies(id, version, docType, fault) ==
    \/ version = 0 /\ ListFaultApplies(id, docType, fault)
    \/ version # 0 /\ fault = "none"
    \/ /\ fault = "read"
       /\ <<id, IF version = 0 THEN getLatestVersion(dirs, files, id, docType, "none")
                ELSE version, ArtifactFile(docType)>> \in DOMAIN files

\* The final files stored for one document id.
FinalsOf(id) == {k \in DOMAIN finalFiles : k[1] = id}

NoOp == [op |-> "none", id |-> <<>>, docType |-> "", version |-> 0, err |-> "nil",
         fault |-> "none"]

Op(op, id, docType, version, err, fault) ==
    [op |-> op, id |-> id, docType |-> docType, version |-> version, err |-> err,
     fault |-> fault]

SaveVersionedCall(op, r, id, docType, fault) ==
    /\ nSaves < MaxSaves
    /\ SaveFaultApplies(id, docType, fault)
    /\ r.doc.Metadata.Version <= MaxVersion
    /\ dirs' = r.dirs
    /\ files' = r.files
    /\ assigned' = [assigned EXCEPT ![<<id, docType>>] = Append(@, r.doc.Metadata.Version)]
    /\ nSaves' = nSaves + 1
    /\ lastOp' = Op(op, id, docType, r.doc.Metadata.Version, r.err, fault)
    /\ UNCHANGED <<finalFiles, lastFinal>>
    /\ UNCHANGED nonStoreVars

SaveParsedCall(id, pages, fault, partial) ==
    SaveVersionedCall("SaveParsed",
                      SaveParsed(dirs, files, NewParsedDocument(id, pages), fault, partial),
                      id, "parsed", fault)

SaveSegmentedCall(id, categories, fault, partial) ==
    SaveVersionedCall("SaveSegmented",
                      SaveSegmented(dirs, files, SampleSegmented(id, categories), fault, partial),
                      id, "segmented", fault)

SaveSegmentedWithLabelCall(id, categories, label, fault, partial) ==
    SaveVersionedCall("SaveSegmentedWithLabel",
                      SaveSegmentedWithLabel(dirs, files, SampleSegmented(id, categories),
                                             label, fault, partial),
                      id, "segmented", fault)

SaveFinalCall(id, data, format, fault, partial) ==
    LET r == SaveFinal(finalFiles, id, data, format, fault, partial)
    IN  /\ nSaves < MaxSaves
        /\ finalFiles' = r.files
        /\ lastFinal' = IF r.err = "nil" THEN [lastFinal EXCEPT ![id] = <<data>>] ELSE lastFinal
        /\ nSaves' = nSaves + 1
        /\ lastOp' = Op("SaveFinal", id, format, 0, r.err, fault)
        /\ UNCHANGED <<dirs, files, assigned>>
        /\ UNCHANGED nonStoreVars

LoadParsedCall(id, version, fault) ==
    /\ LoadFaultApplies(id, version, "parsed", fault)
    /\ lastOp' = Op("LoadParsed", id, "parsed", version,
                    LoadParsed(dirs, files, id, version, fault).err, fault)
    /\ UNCHANGED <<dirs, files, finalFiles, assigned, lastFinal, nSaves>>
    /\ UNCHANGED nonStoreVars

LoadSegmentedCall(id, version, fault) ==
    /\ LoadFaultApplies(id, version, "segmented", fault)
    /\ lastOp' = Op("LoadSegmented", id, "segmented", version,
                    LoadSegmented(dirs, files, id, version, fault).err, fault)
    /\ UNCHANGED <<dirs, files, finalFiles, assigned, lastFinal, nSaves>>
    /\ UNCHANGED nonStoreVars

LoadFinalCall(id, fault) ==
    /\ fault = "read" => FinalsOf(id) # {}
    /\ lastOp' = Op("LoadFinal", id, "final", 0, LoadFinal(finalFiles, id, fault).err, fault)
    /\ UNCHANGED <<dirs, files, finalFiles, assigned, lastFinal, nSaves>>
    /\ UNCHANGED nonStoreVars

ListVersionsCall(id, docType, fault) ==
    /\ ListFaultApplies(id, docType, fault)
    /\ lastOp' = Op("ListVersions", id, docType, 0,
                    ListVersions(dirs, files, id, docType, fault).err, fault)
    /\ UNCHANGED <<dirs, files, finalFiles, assigned, lastFinal, nSaves>>
    /\ UNCHANGED nonStoreVars

NoCmd == [cmd |-> "none", id |-> <<>>, err |-> "nil", savedFinal |-> FALSE]

\* The store after NewFileStorage on an empty base directory.
StoreInit ==
    /\ dirs = {}
    /\ files = <<>>
    /\ finalFiles = <<>>
    /\ assigned = [k \in DocIDs \X Types |-> <<>>]
    /\ lastFinal = [id \in DocIDs |-> <<>>]
    /\ nSaves = 0
    /\ lastOp = NoOp

\* No run of the segmenter.
SegIdle ==
    /\ seg = [doc |-> <<>>, pos |-> 0, st |-> StartCategories, out |-> <<>>]
    /\ segHist = [marker |-> 0, closed |-> <<>>]

\* No call of the converter.
ConvIdle == conv = [doc |-> <<>>, out |-> <<>>]

\* No validation report, no stage command so far.
PipeIdle ==
    /\ reports = <<>>
    /\ now = 0
    /\ lastCmd = NoCmd

\* No invocation of a save under way.
Procs == {1, 2}

\* entries, listedDirs and read are the locals of ListVersions while it runs: the
\* directory entries still to visit, the entries os.ReadDir returned and the sidecars
\* read so far, as they were when read.  storedAt is the time.Now() of the sidecar.
IdleProc ==
    [pc |-> "idle", id |-> <<>>, docType |-> "", seen |-> 0, version |-> 0, err |-> "nil",
     entries |-> <<>>, listedDirs |-> {}, read |-> <<>>, storedAt |-> ZeroTime]

ConcIdle == procs = [p \in Procs |-> IdleProc]

Init ==
    /\ StoreInit
    /\ SegIdle
    /\ ConvIdle
    /\ PipeIdle
    /\ ConcIdle

(***************************************************************************)
(* Spec: one caller, no I/O failure.                                       *)
(***************************************************************************)
Next ==
    \/ \E id \in DocIDs, pages \in SamplePages : SaveParsedCall(id, pages, "none", FALSE)
    \/ \E id \in DocIDs, c \in SampleCategories : SaveSegmentedCall(id, c, "none", FALSE)
    \/ \E id \in DocIDs, c \in SampleCategories :
            SaveSegmentedWithLabelCall(id, c, S_post, "none", FALSE)
    \/ \E id \in DocIDs, data \in SampleFinals, format \in Formats :
            SaveFinalCall(id, data, format, "none", FALSE)

Spec == Init /\ [][Next]_vars

(***************************************************************************)
(* SpecSeg: one run of GenericSegmenter.Segment over a parsed document,    *)
(* the loop of extractCategories taken one block at a time.                *)
(***************************************************************************)
T_AccessControl ==
    <<"1", ".", " ", "A", "c", "c", "e", "s", "s", " ", "C", "o", "n", "t", "r", "o",
      "l">>

T_Implement ==
    <<"I", "m", "p", "l", "e", "m", "e", "n", "t", " ", "s", "t", "r", "o", "n", "g",
      " ", "a", "c", "c", "e", "s", "s", " ", "c", "o", "n", "t", "r", "o", "l", ".">>

T_UserAuthentication ==
    <<"1", ".", "1", " ", "U", "s", "e", "r", " ", "A", "u", "t", "h", "e", "n", "t",
      "i", "c", "a", "t", "i", "o", "n">>

T_EnsureMFA ==
    <<"E", "n", "s", "u", "r", "e", " ", "M", "F", "A", ".">>

T_Tokens ==
    <<"1", ".", "1", ".", "1", " ", "U", "s", "e", " ", "t", "o", "k", "e", "n", "s">>

T_Passwords ==
    <<"1", ".", "2", " ", "P", "a", "s", "s", "w", "o", "r", "d", "s">>

T_Logging ==
    <<"2", ".", " ", "L", "o", "g", "g", "i", "n", "g">>

T_Objective ==
    <<"O", "b", "j", "e", "c", "t", "i", "v", "e", ":", " ", "U", "s", "e", "r", "s",
      " ", "m", "u", "s", "t", " ", "r", "o", "t", "a", "t", "e", " ", "k", "e", "y",
      "s">>

SampleBlocks ==
    {Block("heading", 1, T_AccessControl), Block("paragraph", 0, T_Implement),
     Block("heading", 2, T_UserAuthentication), Block("paragraph", 0, T_EnsureMFA),
     Block("paragraph", 0, T_Tokens), Block("heading", 2, T_Passwords),
     Block("heading", 1, T_Logging), Block("list", 0, T_Objective)}

BlockStreams == UNION {[1..n -> SampleBlocks] : n \in 0..MaxBlocks}

SegInput(blocks) == NewParsedDocument(D1, <<NewPage(1, blocks)>>)

SegBlock == AllBlocks(seg.doc[1].Pages)[seg.pos]

SegRunning == seg.doc # <<>> /\ seg.out = <<>>

\* The guideline that the step on state st attaches to the open category, if any.
ClosedNow(st) ==
    IF st.currentCategory # <<>> /\ st.currentGuideline # <<>>
    THEN <<[marker |-> segHist.marker,
            guideline |-> SavePreviousGuideline(st).currentGuideline[1]]>>
    ELSE <<>>

SegStep(marker) ==
    /\ seg' = [seg EXCEPT !.st = OnBlock(@, SegBlock), !.pos = @ + 1]
    /\ segHist' = [marker |-> marker, closed |-> segHist.closed \o ClosedNow(seg.st)]
    /\ UNCHANGED nonSegVars

SegCategory ==
    /\ SegRunning
    /\ seg.pos <= Len(AllBlocks(seg.doc[1].Pages))
    /\ MatchCategory(SegBlock.Text) # <<>>
    /\ SegStep(0)

SegGuideline ==
    /\ SegRunning
    /\ seg.pos <= Len(AllBlocks(seg.doc[1].Pages))
    /\ MatchCategory(SegBlock.Text) = <<>>
    /\ MatchGuideline(SegBlock.Text) # <<>>
    /\ SegStep(seg.pos)

SegPart ==
    /\ SegRunning
    /\ seg.pos <= Len(AllBlocks(seg.doc[1].Pages))
    /\ MatchCategory(SegBlock.Text) = <<>>
    /\ MatchGuideline(SegBlock.Text) = <<>>
    /\ MatchPart(SegBlock.Text) # <<>>
    /\ seg' = [seg EXCEPT !.st = OnBlock(@, SegBlock), !.pos = @ + 1]
    /\ UNCHANGED <<segHist, nonSegVars>>

SegContent ==
    /\ SegRunning
    /\ seg.pos <= Len(AllBlocks(seg.doc[1].Pages))
    /\ MatchCategory(SegBlock.Text) = <<>>
    /\ MatchGuideline(SegBlock.Text) = <<>>
    /\ MatchPart(SegBlock.Text) = <<>>
    /\ seg' = [seg EXCEPT !.st = OnBlock(@, SegBlock), !.pos = @ + 1]
    /\ UNCHANGED <<segHist, nonSegVars>>

\* The end of the stream: the last guideline and category are closed and Segment returns.
SegReturn ==
    /\ SegRunning
    /\ seg.pos > Len(AllBlocks(seg.doc[1].Pages))
    /\ seg' = [seg EXCEPT !.out =
                  <<NewSegmented(seg.doc[1], seg.doc[1].Metadata.Version,
                                 FinishCategories(seg.st))>>]
    /\ segHist' = [marker |-> 0, closed |-> segHist.closed \o ClosedNow(seg.st)]
    /\ UNCHANGED nonSegVars

InitSeg ==
    /\ StoreInit
    /\ \E blocks \in BlockStreams :
          seg = [doc |-> <<SegInput(blocks)>>, pos |-> 1, st |-> StartCategories, out |-> <<>>]
    /\ segHist = [marker |-> 0, closed |-> <<>>]
    /\ ConvIdle
    /\ PipeIdle
    /\ ConcIdle

NextSeg ==
    \/ SegCategory
    \/ SegGuideline
    \/ SegPart
    \/ SegContent
    \/ SegReturn

SpecSeg == InitSeg /\ [][NextSeg]_vars

(***************************************************************************)
(* What a guideline's own text is: the paragraph and list blocks after its *)
(* marker at position k, up to the next category or guideline marker.      *)
(***************************************************************************)
IsMarker(block) == MatchCategory(block.Text) # <<>> \/ MatchGuideline(block.Text) # <<>>

RECURSIVE OwnTextFrom(_, _, _)
OwnTextFrom(blocks, i, text) ==
    IF i > Len(blocks) \/ IsMarker(blocks[i]) THEN text
    ELSE IF MatchPart(blocks[i].Text) = <<>> /\ blocks[i].Type \in {"paragraph", "list"}
    THEN OwnTextFrom(blocks, i + 1,
                     (IF Len(text) > 0 THEN text \o <<"\n">> ELSE text) \o blocks[i].Text)
    ELSE OwnTextFrom(blocks, i + 1, text)

OwnText(blocks, k) == OwnTextFrom(blocks, k + 1, <<>>)

\* The guideline opened by the marker at position k, finalized with its own text only.
OwnGuideline(blocks, k, guideline) ==
    IF OwnText(blocks, k) = <<>> THEN NewSegmentGuideline(guideline.ID, guideline.Title)
    ELSE finalizeGuideline(NewSegmentGuideline(guideline.ID, guideline.Title),
                           OwnText(blocks, k))

ExampleStream ==
    <<Block("heading", 1, T_AccessControl), Block("paragraph", 0, T_Implement),
      Block("heading", 2, T_UserAuthentication), Block("paragraph", 0, T_EnsureMFA)>>

S_EnsureMFA ==
    <<"E", "n", "s", "u", "r", "e", " ", "M", "F", "A">>

(***************************************************************************)
(* C3: every guideline that Segment attaches to a category has the         *)
(* Objective and the Recommendations that its own text gives: the          *)
(* paragraph and list blocks between its marker and the next category or   *)
(* guideline marker.  Text before its marker and text of other guidelines  *)
(* does not contribute.  For the stream "1. Access Control", "Implement    *)
(* strong access control.", "1.1 User Authentication", "Ensure MFA." the   *)
(* output is one category "1" with one guideline "1.1" whose Objective is  *)
(* "Ensure MFA".                                                           *)
(***************************************************************************)
C3_OwnTextOnly ==
    /\ \A i \in DOMAIN segHist.closed :
          LET e == segHist.closed[i]
              own == OwnGuideline(AllBlocks(seg.doc[1].Pages), e.marker, e.guideline)
          IN  /\ e.guideline.Objective = own.Objective
              /\ e.guideline.Recommendations = own.Recommendations
    /\ (seg.out # <<>> /\ AllBlocks(seg.doc[1].Pages) = ExampleStream) =>
          LET cats == seg.out[1].Categories
          IN  /\ Len(cats) = 1
              /\ cats[1].ID = <<"1">>
              /\ Len(cats[1].Guidelines) = 1
              /\ cats[1].Guidelines[1].ID = <<"1", ".", "1">>
              /\ cats[1].Guidelines[1].Objective = S_EnsureMFA

\* C23: the step on a category-match block leaves the text accumulator empty and no
\* guideline open; the step on a guideline-match block leaves the accumulator empty
\* and the guideline of the match open.  From every state before, also one with no
\* guideline open and text in the accumulator.
C23_MarkersClearAccumulator ==
    [][/\ SegCategory =>
              /\ seg'.st.currentText = <<>>
              /\ seg'.st.currentGuideline = <<>>
       /\ SegGuideline =>
              /\ seg'.st.currentText = <<>>
              /\ seg'.st.currentGuideline # <<>>
              /\ seg'.st.currentGuideline[1].ID = MatchGuideline(SegBlock.Text)[1]
              /\ seg'.st.currentGuideline[1].Parts = <<>>]_vars

\* The structural matches of a block stream, in stream order.
RECURSIVE StreamMarkers(_)
StreamMarkers(blocks) ==
    IF blocks = <<>> THEN <<>>
    ELSE LET text == Head(blocks).Text
         IN  (IF MatchCategory(text) # <<>>
              THEN <<[kind |-> "category", id |-> MatchCategory(text)[1]]>>
              ELSE IF MatchGuideline(text) # <<>>
              THEN <<[kind |-> "guideline", id |-> MatchGuideline(text)[1]]>>
              ELSE IF MatchPart(text) # <<>>
              THEN <<[kind |-> "part", id |-> MatchPart(text)[1]]>>
              ELSE <<>>)
             \o StreamMarkers(Tail(blocks))

\* The categories of an output, each followed by its guidelines, each of these
\* followed by its parts.
RECURSIVE GuidelineMarkers(_)
GuidelineMarkers(guidelines) ==
    IF guidelines = <<>> THEN <<>>
    ELSE <<[kind |-> "guideline", id |-> Head(guidelines).ID]>>
         \o [i \in DOMAIN Head(guidelines).Parts |->
                [kind |-> "part", id |-> Head(guidelines).Parts[i].ID]]
         \o GuidelineMarkers(Tail(guidelines))

RECURSIVE CategoryMarkers(_)
CategoryMarkers(categories) ==
    IF categories = <<>> THEN <<>>
    ELSE <<[kind |-> "category", id |-> Head(categories).ID]>>
         \o GuidelineMarkers(Head(categories).Guidelines)
         \o CategoryMarkers(Tail(categories))

\* C24: the output of Segment holds one category for each category-match block, one
\* guideline for each guideline-match block, under the category opened last before
\* it, and one part for each part-match block, under the guideline opened last before
\* it, all in stream order and none twice: read top down, the output gives the
\* matches of the stream.
C24_NoMatchLost ==
    seg.doc # <<>> /\ seg.out # <<>> =>
        CategoryMarkers(seg.out[1].Categories) = StreamMarkers(AllBlocks(seg.doc[1].Pages))

(***************************************************************************)
(* SpecVal: ConvertAndValidate applied to segmented documents: hand-made   *)
(* ones with complete and incomplete fields, and an output of the          *)
(* segmenter.                                                              *)
(***************************************************************************)
ConvMeta(title, docType) == NewDocumentMetadata(S_Test, title, S_Test, S_Test, docType)

ConvMetas ==
    {ConvMeta(S_Test, <<>>), ConvMeta(S_Test, S_Standard), ConvMeta(S_Test, S_Test),
     ConvMeta(<<>>, <<>>)}

ConvPart(text) == NewSegmentPart(<<"2", ".", "1", ".", "1">>, text)

ConvGuideline(parts) ==
    [NewSegmentGuideline(<<"2", ".", "1">>, S_Test) EXCEPT !.Parts = parts]

ConvCategory(id, description, guidelines) ==
    [ID |-> id, Title |-> S_Test, Description |-> description, Guidelines |-> guidelines]

ConvCategories ==
    {ConvCategory(<<"1">>, S_Test, <<>>),
     ConvCategory(<<"2">>, S_Test, <<ConvGuideline(<<ConvPart(S_Test)>>)>>),
     ConvCategory(<<"3">>, <<>>, <<>>),
     ConvCategory(<<"4">>, S_Test, <<ConvGuideline(<<>>), ConvGuideline(<<>>)>>),
     ConvCategory(<<"5">>, S_Test, <<ConvGuideline(<<ConvPart(<<>>)>>)>>)}

ConvInputs ==
    {NewSegmentedDocument(D1, 1, m, <<>>, cs) :
        m \in ConvMetas, cs \in UNION {[1..n -> ConvCategories] : n \in 0..MaxCategories}}
    \cup {Segment(SegInput(ExampleStream))}

ConvertAndValidateCall(strict) ==
    /\ conv.doc # <<>>
    /\ conv' = [conv EXCEPT !.out = <<ConvertAndValidate(conv.doc[1], strict)>>]
    /\ UNCHANGED nonConvVars

InitVal ==
    /\ StoreInit
    /\ SegIdle
    /\ PipeIdle
    /\ \E doc \in ConvInputs : conv = [doc |-> <<doc>>, out |-> <<>>]
    /\ ConcIdle

NextVal == \E strict \in BOOLEAN : ConvertAndValidateCall(strict)

SpecVal == InitVal /\ [][NextVal]_vars

(***************************************************************************)
(* The documents the validator has nothing to object to after conversion.  *)
(***************************************************************************)
MetadataComplete(doc) ==
    /\ doc.DocumentMetadata.ID # <<>>
    /\ doc.DocumentMetadata.Title # <<>>
    /\ doc.DocumentMetadata.Description # <<>>
    /\ doc.DocumentMetadata.Author # <<>>

DistinctIDs(items) == \A i, j \in DOMAIN items : items[i].ID = items[j].ID => i = j

ContentsComplete(doc) ==
    /\ doc.DocumentMetadata.DocumentType \in ValidDocumentTypes \cup {<<>>}
    /\ DistinctIDs(doc.Categories)
    /\ \A c \in DOMAIN doc.Categories :
          LET cat == doc.Categories[c]
          IN  /\ cat.ID # <<>> /\ cat.Title # <<>> /\ cat.Description # <<>>
              /\ DistinctIDs(cat.Guidelines)
              /\ \A g \in DOMAIN cat.Guidelines :
                    LET guide == cat.Guidelines[g]
                    IN  /\ guide.ID # <<>> /\ guide.Title # <<>>
                        /\ DistinctIDs(guide.Parts)
                        /\ \A q \in DOMAIN guide.Parts :
                              guide.Parts[q].ID # <<>> /\ guide.Parts[q].Text # <<>>

(***************************************************************************)
(* C4, as stated: for every segmented document whose metadata id, title,   *)
(* description and author are non-empty and which has at least one         *)
(* category, non-strict Validate(Convert(doc)) is Valid, whatever its      *)
(* categories, guidelines and parts hold.                                  *)
(***************************************************************************)
C4_RoundTripValid ==
    (/\ conv.out # <<>>
     /\ ~conv.out[1].strict
     /\ MetadataComplete(conv.doc[1])
     /\ Len(conv.doc[1].Categories) >= 1)
        => conv.out[1].result.Valid

(***************************************************************************)
(* C4, amended: non-strict Validate(Convert(doc)) is Valid for every       *)
(* segmented document with complete metadata and at least one category     *)
(* whose document type is empty or one of the four allowed values, whose   *)
(* categories have id, title and description, whose guidelines have id and *)
(* title, whose parts have id and text, and whose ids are distinct among   *)
(* siblings.                                                               *)
(***************************************************************************)
C4_RoundTripValidComplete ==
    (/\ conv.out # <<>>
     /\ ~conv.out[1].strict
     /\ MetadataComplete(conv.doc[1])
     /\ Len(conv.doc[1].Categories) >= 1
     /\ ContentsComplete(conv.doc[1]))
        => conv.out[1].result.Valid

\* A complete document with two categories, a guideline and a part was found valid.
C4_Witness ==
    /\ conv.out # <<>>
    /\ ~conv.out[1].strict
    /\ MetadataComplete(conv.doc[1])
    /\ ContentsComplete(conv.doc[1])
    /\ Len(conv.doc[1].Categories) = 2
    /\ \E c \in DOMAIN conv.doc[1].Categories :
          /\ Len(conv.doc[1].Categories[c].Guidelines) = 1
          /\ Len(conv.doc[1].Categories[c].Guidelines[1].Parts) = 1
    /\ conv.out[1].result.Valid
    /\ conv.out[1].result.Errors = <<>>
    /\ Len(conv.out[1].doc.Categories) = 2

(***************************************************************************)
(* SpecPipe: the convert stage on a store that earlier stages fill with    *)
(* segmented versions of one document, within one second of the clock.     *)
(***************************************************************************)
PipeIDs == {D1}

\* Segmented documents: valid in non-strict mode only, valid in both modes.
PipeSegmented ==
    {SampleSegmented(D1, <<SampleCategory>>),
     [SampleSegmented(D1, <<SampleCategory>>)
         EXCEPT !.DocumentMetadata.DocumentType = S_Standard]}

\* Two formats SaveFinal stores, in files of their own, and one it refuses.
PipeFormats == {"yaml", "json", "xml"}

PipeSaveSegmented(doc) ==
    /\ Len(assigned[<<doc.Metadata.DocumentID, "segmented">>]) < MaxPipeSaves
    /\ SaveVersionedCall("SaveSegmented", SaveSegmented(dirs, files, doc, "none", FALSE),
                         doc.Metadata.DocumentID, "segmented", "none")

CmdConvert(id, sourceVersion, strict, saveReport, format) ==
    LET r == cmdConvert(dirs, files, finalFiles, reports, now, id, sourceVersion, strict,
                        saveReport, format)
    IN  /\ finalFiles' = r.finalFiles
        /\ reports' = r.reports
        /\ lastCmd' = [cmd |-> "convert", id |-> id, err |-> r.err,
                       savedFinal |-> r.savedFinal]
        /\ lastFinal' = IF r.savedFinal /\ r.err = "nil"
                        THEN [lastFinal EXCEPT ![id] =
                                 <<Convert(LoadSegmented(dirs, files, id, sourceVersion,
                                                         "none").doc)>>]
                        ELSE lastFinal
        /\ UNCHANGED <<dirs, files, assigned, nSaves, lastOp, now>>
        /\ UNCHANGED <<segVars, convVars, concVars>>

NextPipe ==
    \/ \E doc \in PipeSegmented : PipeSaveSegmented(doc)
    \/ \E id \in PipeIDs, sourceVersion \in 0..MaxPipeSaves,
          strict \in BOOLEAN, saveReport \in BOOLEAN, format \in PipeFormats :
            CmdConvert(id, sourceVersion, strict, saveReport, format)
    \/ CmdConvert(<<>>, 0, FALSE, TRUE, "yaml")

SpecPipe == Init /\ [][NextPipe]_vars

(***************************************************************************)
(* C5: the convert stage calls SaveFinal only after Validate, in the mode  *)
(* in effect, returned Valid for the converted document; when validation   *)
(* reports a violation the stage returns an error and the final artifacts  *)
(* are as before (a report may be written).                                *)
(***************************************************************************)
C5_ValidationGate ==
    [][\A id \in PipeIDs, sourceVersion \in 0..MaxPipeSaves, strict \in BOOLEAN,
         saveReport \in BOOLEAN, format \in PipeFormats :
          CmdConvert(id, sourceVersion, strict, saveReport, format) =>
              LET loaded == LoadSegmented(dirs, files, id, sourceVersion, "none")
                  valid == /\ loaded.err = "nil"
                           /\ Validate(Convert(loaded.doc), strict).Valid
              IN  /\ lastCmd'.savedFinal => valid
                  /\ finalFiles' # finalFiles => valid
                  /\ (loaded.err = "nil" /\ ~valid) =>
                        /\ lastCmd'.err = "Validation"
                        /\ ~lastCmd'.savedFinal
                        /\ finalFiles' = finalFiles
                        /\ lastFinal' = lastFinal]_vars

\* A conversion was refused by the validator while a final of an earlier conversion
\* is stored; the refusal left a report.
C5_Witness ==
    /\ lastCmd.cmd = "convert"
    /\ lastCmd.err = "Validation"
    /\ ~lastCmd.savedFinal
    /\ FinalsOf(lastCmd.id) # {}
    /\ lastFinal[lastCmd.id] # <<>>
    /\ \E k \in DOMAIN reports : k[1] = lastCmd.id /\ reports[k].ok /\ ~reports[k].json.Valid

(***************************************************************************)
(* SpecFault: one caller; any call may fail at one of its file-system      *)
(* steps, a failed write leaving the file untouched or truncated.          *)
(***************************************************************************)
FaultIDs == {D1}

NextFault ==
    \/ \E id \in FaultIDs, fault \in SaveFaults, partial \in BOOLEAN :
            SaveParsedCall(id, <<>>, fault, partial)
    \/ \E id \in FaultIDs, fault \in SaveFaults, partial \in BOOLEAN :
            SaveSegmentedCall(id, <<>>, fault, partial)
    \/ \E id \in FaultIDs, fault \in SaveFaults, partial \in BOOLEAN :
            SaveSegmentedWithLabelCall(id, <<>>, S_post, fault, partial)
    \/ \E id \in FaultIDs, data \in SampleFinals, format \in Formats,
          fault \in {"none", "mkdir", "write"}, partial \in BOOLEAN :
            SaveFinalCall(id, data, format, fault, partial)
    \/ \E id \in FaultIDs, version \in 0..MaxVersion, fault \in LoadFaults :
            LoadParsedCall(id, version, fault)
    \/ \E id \in FaultIDs, version \in 0..MaxVersion, fault \in LoadFaults :
            LoadSegmentedCall(id, version, fault)
    \/ \E id \in FaultIDs, fault \in {"none", "read"} : LoadFinalCall(id, fault)
    \/ \E id \in FaultIDs, docType \in Types, fault \in {"none", "readdir", "readmeta"} :
            ListVersionsCall(id, docType, fault)

SpecFault == Init /\ [][NextFault]_vars

Tick ==
    /\ now < MaxClock
    /\ now' = now + 1
    /\ UNCHANGED <<reports, storeVars, segVars, convVars, pipeVars, concVars>>

(***************************************************************************)
(* SpecConc: two invocations of SaveParsed/SaveSegmented at once, no I/O   *)
(* failure.  An invocation takes the system calls of the function one at  *)
(* a time: os.ReadDir and one os.ReadFile per version directory in         *)
(* ListVersions, os.MkdirAll, and the open and the write of os.WriteFile,  *)
(* for the artifact and for the sidecar, and time.Now() between the two.   *)
(* Nothing in Storage orders the steps of two invocations.  Only time.Now() *)
(* reads the clock, so the time that has passed since the last reading     *)
(* passes in the step that reads it.                                       *)
(***************************************************************************)
\* The artifacts the invocations save: both types of one document, whose versions
\* share directories, and an artifact of another document.
ConcPairs == {<<D1, "parsed">>, <<D1, "segmented">>, <<D2, "parsed">>}

\* The document invocation p saves: each invocation has a document of its own.
ProcDoc(p, id, docType) ==
    IF docType = "parsed"
    THEN NewParsedDocument(id, IF p = 1 THEN <<>> ELSE <<NewPage(1, <<>>)>>)
    ELSE SampleSegmented(id, IF p = 1 THEN <<>> ELSE <<SampleCategory>>)

\* json.MarshalIndent of the document of p, its version set.
ProcData(p) ==
    Marshal(SetVersion(ProcDoc(p, procs[p].id, procs[p].docType), procs[p].version),
            procs[p].docType)

ProcArtifact(p) == <<procs[p].id, procs[p].version, ArtifactFile(procs[p].docType)>>

ProcSidecar(p) == <<procs[p].id, procs[p].version, SidecarFile(procs[p].docType)>>

ProcMeta(p) ==
    NewStorageMetadata(procs[p].id, procs[p].version, procs[p].docType, procs[p].storedAt,
                       ByteLen(ProcData(p), procs[p].docType), <<>>)

\* ListVersions has returned to getNextVersion with what it read of the directories d
\* and the sidecars f: version := latest + 1; doc.Metadata.Version = version
Listed(p, id, docType, d, f) ==
    LET version == getNextVersion(d, f, id, docType, "none")
    IN  /\ version <= MaxVersion
        /\ procs' = [procs EXCEPT ![p] =
                        [IdleProc EXCEPT !.pc = "listed", !.id = id, !.docType = docType,
                                         !.seen = getLatestVersion(d, f, id, docType, "none"),
                                         !.version = version]]
        /\ assigned' = [assigned EXCEPT ![<<id, docType>>] = Append(@, version)]

\* entries, err := os.ReadDir(dir) of ListVersions, called by getNextVersion.  Without
\* the directory of the document ListVersions returns at once.
SaveList(p, id, docType) ==
    /\ procs[p].pc \in {"idle", "done"}
    /\ nSaves < MaxConcSaves
    /\ nSaves' = nSaves + 1
    /\ IF VersionDirs(dirs, id) = {}
       THEN Listed(p, id, docType, {}, <<>>)
       ELSE /\ procs' = [procs EXCEPT ![p] =
                            [IdleProc EXCEPT !.pc = "listing", !.id = id,
                                             !.docType = docType,
                                             !.entries = AscSeq(VersionDirs(dirs, id)),
                                             !.listedDirs = {e \in dirs : e[1] = id}]]
            /\ UNCHANGED assigned
    /\ UNCHANGED <<dirs, files, finalFiles, lastFinal, lastOp>>
    /\ UNCHANGED <<segVars, convVars, reportVars, pipeVars>>

\* The metadata files of one version directory, as os.ReadFile finds them now.
SidecarsNow(id, version, docType) ==
    {path \in {<<id, version, SidecarFile(docType)>>, <<id, version, "metadata.json">>} :
        path \in DOMAIN files}

\* data, err := os.ReadFile(metaPath) and json.Unmarshal for the next directory entry;
\* after the last entry ListVersions sorts and returns.
SaveReadMeta(p) ==
    LET now_ == SidecarsNow(procs[p].id, Head(procs[p].entries), procs[p].docType)
        read == [path \in DOMAIN procs[p].read \cup now_ |->
                    IF path \in now_ THEN files[path] ELSE procs[p].read[path]]
    IN  /\ procs[p].pc = "listing"
        /\ IF Len(procs[p].entries) = 1
           THEN Listed(p, procs[p].id, procs[p].docType, procs[p].listedDirs, read)
           ELSE /\ procs' = [procs EXCEPT ![p].entries = Tail(@), ![p].read = read]
                /\ UNCHANGED assigned
        /\ UNCHANGED <<dirs, files, finalFiles, lastFinal, nSaves, lastOp>>
        /\ UNCHANGED <<segVars, convVars, reportVars, pipeVars>>

\* os.MkdirAll(dir, 0755)
SaveMkdir(p) ==
    /\ procs[p].pc = "listed"
    /\ dirs' = MkdirAll(dirs, procs[p].id, procs[p].version)
    /\ procs' = [procs EXCEPT ![p].pc = "made"]
    /\ UNCHANGED <<files, finalFiles, assigned, lastFinal, nSaves, lastOp>>
    /\ UNCHANGED <<segVars, convVars, reportVars, pipeVars>>

\* os.WriteFile(filePath, data, 0644), the open: O_WRONLY|O_CREATE|O_TRUNC leaves the
\* file empty.
SaveOpen(p) ==
    /\ procs[p].pc = "made"
    /\ files' = WriteFile(files, ProcArtifact(p), PartialFile)
    /\ procs' = [procs EXCEPT ![p].pc = "opened"]
    /\ UNCHANGED <<dirs, finalFiles, assigned, lastFinal, nSaves, lastOp>>
    /\ UNCHANGED <<segVars, convVars, reportVars, pipeVars>>

\* os.WriteFile(filePath, data, 0644), the write of the data.
SaveWrite(p) ==
    /\ procs[p].pc = "opened"
    /\ files' = WriteAt(files, ProcArtifact(p), ProcData(p),
                        ByteLen(ProcData(p), procs[p].docType))
    /\ procs' = [procs EXCEPT ![p].pc = "written"]
    /\ UNCHANGED <<dirs, finalFiles, assigned, lastFinal, nSaves, lastOp>>
    /\ UNCHANGED <<segVars, convVars, reportVars, pipeVars>>

\* meta := StorageMetadata{..., StoredAt: time.Now(), ...}: the clock is read, after
\* whatever time has passed since it was read last.
SaveStamp(p) ==
    /\ procs[p].pc = "written"
    /\ \E t \in now..MaxConcClock :
          /\ now' = t
          /\ procs' = [procs EXCEPT ![p].pc = "stamped", ![p].storedAt = t]
    /\ UNCHANGED <<dirs, files, finalFiles, assigned, lastFinal, nSaves, lastOp>>
    /\ UNCHANGED <<segVars, convVars, reports, pipeVars>>

\* s.saveMetadataWithType(dir, meta, type): the open of its os.WriteFile.
SaveSidecarOpen(p) ==
    /\ procs[p].pc = "stamped"
    /\ files' = WriteFile(files, ProcSidecar(p), PartialFile)
    /\ procs' = [procs EXCEPT ![p].pc = "sidecarOpened"]
    /\ UNCHANGED <<dirs, finalFiles, assigned, lastFinal, nSaves, lastOp>>
    /\ UNCHANGED <<segVars, convVars, reportVars, pipeVars>>

\* return s.saveMetadataWithType(dir, meta, type), the write of the sidecar.
SaveSidecar(p) ==
    LET data == MarshalMeta(ProcMeta(p))
    IN  /\ procs[p].pc = "sidecarOpened"
        /\ files' = WriteAt(files, ProcSidecar(p), data, MetaLen(data.json))
        /\ procs' = [procs EXCEPT ![p].pc = "done", ![p].err = "nil"]
        /\ UNCHANGED <<dirs, finalFiles, assigned, lastFinal, nSaves, lastOp>>
        /\ UNCHANGED <<segVars, convVars, reportVars, pipeVars>>

NextConc ==
    \/ \E p \in Procs, k \in ConcPairs : SaveList(p, k[1], k[2])
    \/ \E p \in Procs : SaveReadMeta(p)
    \/ \E p \in Procs : SaveMkdir(p)
    \/ \E p \in Procs : SaveOpen(p)
    \/ \E p \in Procs : SaveWrite(p)
    \/ \E p \in Procs : SaveStamp(p)
    \/ \E p \in Procs : SaveSidecarOpen(p)
    \/ \E p \in Procs : SaveSidecar(p)

SpecConc == Init /\ [][NextConc]_vars

\* Two invocations that saved the same kind of artifact of the same document.
SamePair(p, q) ==
    /\ p # q
    /\ procs[p].pc = "done" /\ procs[q].pc = "done"
    /\ procs[p].id = procs[q].id /\ procs[p].docType = procs[q].docType

\* C7: two concurrent saves of the same (documentID, type) that read the same latest
\* version are given the same new version and both return success; the one artifact
\* file of the version directory then holds the document of one of them or the bytes
\* of both, so that at least one of the two documents is stored nowhere.
C7_DuplicateVersion ==
    \A p, q \in Procs :
        SamePair(p, q) /\ procs[p].seen = procs[q].seen =>
            /\ procs[p].version = procs[q].version
            /\ procs[p].err = "nil" /\ procs[q].err = "nil"
            /\ ProcData(p) # ProcData(q)
            /\ ProcArtifact(p) \in DOMAIN files
            /\ files[ProcArtifact(p)].ok => files[ProcArtifact(p)] \in {ProcData(p), ProcData(q)}
            /\ \A key \in DOMAIN files :
                   files[key] \in {ProcData(p), ProcData(q)} => key = ProcArtifact(p)

\* Both returned success with version 1; the artifact is that of invocation 2, the
\* document of invocation 1 is lost and the sidecar gives the size of the lost one.
C7_Witness ==
    /\ SamePair(1, 2)
    /\ procs[1].docType = "parsed"
    /\ procs[1].seen = 0 /\ procs[2].seen = 0
    /\ procs[1].version = 1 /\ procs[2].version = 1
    /\ procs[1].err = "nil" /\ procs[2].err = "nil"
    /\ files[ProcArtifact(1)] = ProcData(2)
    /\ files[ProcSidecar(1)] = MarshalMeta(ProcMeta(1))
    /\ ProcMeta(1).Size # ProcMeta(2).Size

\* The stored files of one (documentID, type): artifacts and sidecars, with content.
PairFiles(f, id, docType) ==
    {<<key, f[key]>> : key \in {k \in DOMAIN f :
        k[1] = id /\ k[3] \in {ArtifactFile(docType), SidecarFile(docType)}}}

\* What a step leaves alone for one (documentID, type).
PairUntouched(id, docType) ==
    /\ ListVersions(dirs', files', id, docType, "none")
           = ListVersions(dirs, files, id, docType, "none")
    /\ getNextVersion(dirs', files', id, docType, "none")
           = getNextVersion(dirs, files, id, docType, "none")
    /\ PairFiles(files', id, docType) = PairFiles(files, id, docType)

\* The saves of one (documentID, type) that were given version n have all returned.
Settled(id, docType, n) ==
    /\ \E i \in 1..Len(assigned[<<id, docType>>]) : assigned[<<id, docType>>][i] = n
    /\ \A p \in Procs :
           procs[p].id = id /\ procs[p].docType = docType /\ procs[p].version = n =>
               procs[p].pc = "done"

\* Directory v{n} of the document holds the artifact and the sidecar of the type.
HoldsIntact(id, docType, n) ==
    /\ <<id, n, ArtifactFile(docType)>> \in DOMAIN files
    /\ files[<<id, n, ArtifactFile(docType)>>].ok
    /\ files[<<id, n, ArtifactFile(docType)>>].json.metadata.version = n
    /\ <<id, n, SidecarFile(docType)>> \in DOMAIN files
    /\ files[<<id, n, SidecarFile(docType)>>].ok
    /\ UnmarshalMeta(files[<<id, n, SidecarFile(docType)>>]).Type = docType
    /\ \E i \in DOMAIN ListVersions(dirs, files, id, docType, "none").metas :
           ListVersions(dirs, files, id, docType, "none").metas[i].Version = n

\* A step of a save leaves every other (documentID, type) as it was.
OtherPairsUntouched ==
    \A p \in Procs : procs'[p] # procs[p] =>
        \A k \in DocIDs \X Types :
            k # <<procs'[p].id, procs'[p].docType>> => PairUntouched(k[1], k[2])

\* Directory v{n} of a document, once the saves given version n have returned, holds
\* both artifacts and both sidecars intact.
SharedDirectoryIntact ==
    \A id \in DocIDs, n \in 1..(MaxVersion + 1) :
        (Settled(id, "parsed", n) /\ Settled(id, "segmented", n)) =>
            HoldsIntact(id, "parsed", n) /\ HoldsIntact(id, "segmented", n)

\* C9 as stated: in any sequential or concurrent interleaving, a save of one
\* (documentID, type) leaves the listed versions, the next version and the stored
\* files of every other (documentID, type) as they were, and when a parsed and a
\* segmented save of a document were given the same version n, directory v{n} holds
\* both artifacts and both sidecars intact.
C9_PairsIndependent ==
    /\ []SharedDirectoryIntact
    /\ [][OtherPairsUntouched]_vars

\* Version n of the (documentID, type) was given to one save only: no two saves of
\* that artifact raced for it.
GivenOnce(id, docType, n) ==
    Cardinality({i \in 1..Len(assigned[<<id, docType>>]) :
                    assigned[<<id, docType>>][i] = n}) = 1

SharedDirectoryIntactOnce ==
    \A id \in DocIDs, n \in 1..(MaxVersion + 1) :
        (/\ Settled(id, "parsed", n) /\ Settled(id, "segmented", n)
         /\ GivenOnce(id, "parsed", n) /\ GivenOnce(id, "segmented", n)) =>
            HoldsIntact(id, "parsed", n) /\ HoldsIntact(id, "segmented", n)

\* C9, amended: a step of a save of one (documentID, type), alone or among the steps
\* of other saves (of another or of the same artifact), leaves the listed versions,
\* the next version and the stored files of every other (documentID, type) as they
\* were; when version n of a document was given to exactly one parsed and exactly one
\* segmented save, the directory v{n} they share holds both artifacts and both
\* sidecars intact.  Two saves of the same artifact that race for version n can leave
\* an artifact of v{n} that is no JSON document, beside the artifact of the other type.
C9_PairsIndependentGivenOnce ==
    /\ []SharedDirectoryIntactOnce
    /\ [][OtherPairsUntouched]_vars

C9_Witness ==
    /\ GivenOnce(D1, "parsed", 1) /\ GivenOnce(D1, "segmented", 1)
    /\ procs[1].id = D1 /\ procs[2].id = D1
    /\ procs[1].docType = "parsed" /\ procs[2].docType = "segmented"
    /\ procs[1].version = 1 /\ procs[2].version = 1
    /\ procs[1].pc = "done" /\ procs[2].pc = "done"
    /\ HoldsIntact(D1, "parsed", 1) /\ HoldsIntact(D1, "segmented", 1)

(***************************************************************************)
(* SpecReport: validation reports saved as the clock goes on.              *)
(***************************************************************************)
ReportResults ==
    {[Valid |-> TRUE, Errors |-> <<>>],
     [Valid |-> FALSE,
      Errors |-> <<[Path |-> "categories", Message |-> "document must have at least one category"]>>]}

ReportIDs == {D1}

\* A caller builds a report at time.Now() and saves it.
SaveValidationReportCall(id, stage, result, fault, partial) ==
    /\ reports' = SaveValidationReport(reports,
                      NewValidationReport(id, now, TRUE, result, 0, stage), fault, partial).files
    /\ UNCHANGED <<now, storeVars, segVars, convVars, pipeVars, concVars>>

\* reports, err := store.LoadValidationReports(id)
LoadValidationReportsCall(id, fault) ==
    /\ lastOp' = Op("LoadValidationReports", id, "report", 0,
                    LoadValidationReports(reports, id, fault).err, fault)
    /\ UNCHANGED <<dirs, files, finalFiles, assigned, lastFinal, nSaves>>
    /\ UNCHANGED <<reports, now, segVars, convVars, pipeVars, concVars>>

NextReport ==
    \/ Tick
    \/ \E id \in ReportIDs, fault \in {"none", "readdir"} : LoadValidationReportsCall(id, fault)
    \/ \E id \in ReportIDs, stage \in {"convert", "validate"}, result \in ReportResults,
          fault \in {"none", "mkdir", "write"}, partial \in BOOLEAN :
            SaveValidationReportCall(id, stage, result, fault, partial)

SpecReport == Init /\ [][NextReport]_vars

\* The reports LoadValidationReports returns for a document, as a bag.
LoadedCount(rp, id, report) ==
    Cardinality({i \in DOMAIN LoadValidationReports(rp, id, "none").reports :
                    LoadValidationReports(rp, id, "none").reports[i] = report})

NewestFirst(rs) == \A i, j \in DOMAIN rs : i < j => rs[i].Timestamp >= rs[j].Timestamp

\* C12: a successful SaveValidationReport adds its report to what
\* LoadValidationReports returns for the document and removes or replaces none of the
\* reports returned before, whatever the stages and timestamps; the reports are
\* returned newest first.
C12_ReportsAppendOnly ==
    [][\A id \in ReportIDs, stage \in {"convert", "validate"}, result \in ReportResults :
           SaveValidationReportCall(id, stage, result, "none", FALSE) =>
               LET before == LoadValidationReports(reports, id, "none").reports
                   after == LoadValidationReports(reports', id, "none").reports
                   new == NewValidationReport(id, now, TRUE, result, 0, stage)
               IN  /\ Len(after) = Len(before) + 1
                   /\ \A i \in DOMAIN before :
                          LoadedCount(reports', id, before[i])
                              >= LoadedCount(reports, id, before[i])
                   /\ LoadedCount(reports', id, new) >= 1
                   /\ NewestFirst(after)]_vars

(***************************************************************************)
(* SpecSegment: Segment as one call, on parsed documents with and without  *)
(* a document id, with and without blocks that match a pattern.            *)
(***************************************************************************)
T_Intro ==
    <<"I", "n", "t", "r", "o">>

T_TitleGuide ==
    <<"T", "i", "t", "l", "e", ":", " ", "G", "u", "i", "d", "e">>

T_AuthorBlank ==
    <<"A", "u", "t", "h", "o", "r", ":", " ", " ">>

T_SomeText ==
    <<"S", "o", "m", "e", " ", "t", "e", "x", "t">>

T_ItemOne ==
    <<"i", "t", "e", "m", " ", "o", "n", "e">>

T_Scope ==
    <<"S", "c", "o", "p", "e">>

SegmentBlocks ==
    {Block("heading", 1, T_Intro), Block("paragraph", 0, T_TitleGuide),
     Block("paragraph", 0, T_AuthorBlank), Block("paragraph", 0, T_SomeText),
     Block("list", 0, T_ItemOne), Block("heading", 2, T_Scope),
     Block("heading", 1, T_AccessControl)}

SegmentInputs ==
    {NewParsedDocument(id, <<NewPage(1, blocks)>>) :
        id \in {<<>>, D1},
        blocks \in UNION {[1..n -> SegmentBlocks] : n \in 0..MaxSegmentBlocks}}

\* segmented, err := seg.Segment(doc); the error is always nil.
SegmentCall ==
    /\ seg.doc # <<>> /\ seg.out = <<>>
    /\ seg' = [seg EXCEPT !.out = <<Segment(seg.doc[1])>>]
    /\ UNCHANGED <<segHist, nonSegVars>>

InitSegment ==
    /\ StoreInit
    /\ \E doc \in SegmentInputs :
          seg = [doc |-> <<doc>>, pos |-> 0, st |-> StartCategories, out |-> <<>>]
    /\ segHist = [marker |-> 0, closed |-> <<>>]
    /\ ConvIdle
    /\ PipeIdle
    /\ ConcIdle

NextSegment == SegmentCall

SpecSegment == InitSegment /\ [][NextSegment]_vars

\* C13: in every document Segment returns, the id, title, description and author of
\* DocumentMetadata are non-empty, whatever the parsed document holds.
C13_RequiredMetadataNonEmpty ==
    seg.out # <<>> =>
        /\ seg.out[1].DocumentMetadata.ID # <<>>
        /\ seg.out[1].DocumentMetadata.Title # <<>>
        /\ seg.out[1].DocumentMetadata.Description # <<>>
        /\ seg.out[1].DocumentMetadata.Author # <<>>

\* No block of the stream matches the category, guideline or part pattern.
NoStructure(blocks) ==
    \A i \in DOMAIN blocks :
        /\ MatchCategory(blocks[i].Text) = <<>>
        /\ MatchGuideline(blocks[i].Text) = <<>>
        /\ MatchPart(blocks[i].Text) = <<>>

\* C14: for a stream without any structural match Segment returns zero categories and
\* a FrontMatter that holds the text of every block other than the top-level headings.
C14_BodyBecomesFrontMatter ==
    seg.out # <<>> /\ NoStructure(AllBlocks(seg.doc[1].Pages)) =>
        /\ seg.out[1].Categories = <<>>
        /\ \A i \in DOMAIN AllBlocks(seg.doc[1].Pages) :
               LET block == AllBlocks(seg.doc[1].Pages)[i]
               IN  ~(block.Type = "heading" /\ block.Level <= 1) =>
                       Contains(seg.out[1].FrontMatter, TrimSpace(block.Text))

(***************************************************************************)
(* SpecValidate: Validate on final documents, nil included, in both modes. *)
(* conv.doc holds the pointer given to the call.                           *)
(***************************************************************************)
L1Part(id, text) == [Id |-> id, Title |-> <<>>, Text |-> text, Recommendations |-> <<>>]

L1Mapping(referenceId, entries) == [ReferenceId |-> referenceId, Entries |-> entries]

L1Guideline(id, title, rationale, parts, mappings) ==
    [Id |-> id, Title |-> title, Objective |-> <<>>, Recommendations |-> <<>>,
     GuidelineParts |-> parts, Rationale |-> rationale, GuidelineMappings |-> mappings,
     PrincipleMappings |-> <<>>]

L1Category(id, title, description, guidelines) ==
    [Id |-> id, Title |-> title, Description |-> description, Guidelines |-> guidelines]

L1Metadata(id, title, description, author, documentType) ==
    [Id |-> id, Title |-> title, Description |-> description, Author |-> author,
     Version |-> <<>>, PublicationDate |-> <<>>, DocumentType |-> documentType,
     Applicability |-> <<>>, MappingReferences |-> <<>>]

L1Document(metadata, categories, imported) ==
    [Metadata |-> metadata, FrontMatter |-> <<>>, Categories |-> categories,
     ImportedGuidelines |-> imported, ImportedPrinciples |-> <<>>]

PartOK == L1Part(<<"p">>, S_Test)
PartNoText == L1Part(<<"q">>, <<>>)
MappingOK == L1Mapping(S_Test, <<[ReferenceId |-> S_Test, Strength |-> 50]>>)
MappingBad == L1Mapping(<<>>, <<[ReferenceId |-> <<>>, Strength |-> 101]>>)
RationaleBad ==
    [Risks |-> <<[Title |-> <<>>, Description |-> S_Test]>>,
     Outcomes |-> <<[Title |-> S_Test, Description |-> <<>>]>>]
GuideOK == L1Guideline(<<"g">>, S_Test, <<>>, <<PartOK>>, <<>>)
GuideNoId == L1Guideline(<<>>, S_Test, <<>>, <<PartOK, PartNoText>>, <<>>)
GuideMapped == L1Guideline(<<"g">>, <<>>, <<RationaleBad>>, <<PartOK, PartOK>>,
                           <<MappingOK, MappingBad>>)

ValCategories ==
    {L1Category(<<"a">>, S_Test, S_Test, <<GuideOK>>),
     L1Category(<<"a">>, <<>>, S_Test, <<GuideOK, GuideNoId>>),
     L1Category(<<>>, S_Test, <<>>, <<>>),
     L1Category(<<"d">>, S_Test, S_Test, <<GuideOK, GuideOK, GuideMapped>>)}

MetaOK == L1Metadata(D1, S_Test, S_Test, S_Test, <<>>)

ValMetas ==
    {L1Metadata(id, title, description, author, documentType) :
        id \in {<<>>, D1}, title \in {<<>>, S_Test}, description \in {<<>>, S_Test},
        author \in {<<>>, S_Test}, documentType \in {<<>>, S_Standard, S_Test}}

PartQ == L1Part(<<"q">>, S_Test)

\* Two categories, the first with two guidelines, the first of these with two parts.
SiblingCategories(parts, guideId, categoryId) ==
    <<L1Category(<<"a">>, S_Test, S_Test,
                 <<L1Guideline(<<"g">>, S_Test, <<>>, parts, <<>>),
                   L1Guideline(guideId, S_Test, <<>>, <<PartOK>>, <<>>)>>),
      L1Category(categoryId, S_Test, S_Test, <<GuideOK>>)>>

\* Documents whose only possible defect is an id shared by two siblings.
SiblingInputs ==
    {L1Document(MetaOK, SiblingCategories(parts, guideId, categoryId), <<>>) :
        parts \in {<<PartOK, PartQ>>, <<PartOK, PartOK>>},
        guideId \in {<<"g">>, <<"h">>}, categoryId \in {<<"a">>, <<"b">>}}

ValidateInputs ==
    {L1Document(MetaOK, categories, <<>>) :
        categories \in UNION {[1..n -> ValCategories] : n \in 1..MaxValCategories}}
    \cup {L1Document(meta, categories, <<>>) :
            meta \in ValMetas, categories \in {<<>>, <<L1Category(<<"a">>, S_Test, S_Test, <<>>)>>}}
    \cup {L1Document(MetaOK, <<>>, imported) :
            imported \in {<<MappingBad>>, <<MappingOK, MappingBad>>}}
    \cup SiblingInputs

\* result := v.Validate(doc) with a validator of the given mode.
ValidateCall(strict) ==
    /\ conv.doc # <<>>
    /\ conv' = [conv EXCEPT !.out =
                   <<[result |-> ValidatePointer(conv.doc[1], strict), strict |-> strict]>>]
    /\ UNCHANGED nonConvVars

InitValidate ==
    /\ StoreInit
    /\ SegIdle
    /\ \E docPtr \in {<<>>} \cup {<<doc>> : doc \in ValidateInputs} :
          conv = [doc |-> <<docPtr>>, out |-> <<>>]
    /\ PipeIdle
    /\ ConcIdle

NextValidate == \E strict \in BOOLEAN : ValidateCall(strict)

SpecValidate == InitValidate /\ [][NextValidate]_vars

\* The call returned for a document that is not nil.
Validated == conv.out # <<>> /\ conv.doc[1] # <<>>

ValidatedDoc == conv.doc[1][1]

ErrorSet(result) == {result.Errors[i] : i \in DOMAIN result.Errors}

(***************************************************************************)
(* The violated rule instances of a document, rule by rule and element by  *)
(* element, each with the path of its field.                               *)
(***************************************************************************)
Violation(cond, path, message) ==
    IF cond THEN {[Path |-> path, Message |-> message]} ELSE {}

Empty(cond, path) == Violation(cond, path, "required field is empty")

Duplicate(seq, i) == seq[i].Id # <<>> /\ \E k \in 1..(i - 1) : seq[k].Id = seq[i].Id

At(path, name, i) == path \o name \o "[" \o ToString(i - 1) \o "]"

MappingViolations(m, path) ==
    Empty(m.ReferenceId = <<>>, path \o ".reference-id")
    \cup UNION {Empty(m.Entries[i].ReferenceId = <<>>,
                      At(path, ".entries", i) \o ".reference-id")
                \cup Violation(m.Entries[i].Strength < 0 \/ m.Entries[i].Strength > 100,
                               At(path, ".entries", i) \o ".strength",
                               "should be between 0 and 100") : i \in DOMAIN m.Entries}

TitledViolations(items, path, name) ==
    UNION {Empty(items[i].Title = <<>>, At(path, name, i) \o ".title")
           \cup Empty(items[i].Description = <<>>, At(path, name, i) \o ".description") :
           i \in DOMAIN items}

GuidelineViolations(g, path) ==
    Empty(g.Id = <<>>, path \o ".id")
    \cup Empty(g.Title = <<>>, path \o ".title")
    \cup (IF g.Rationale = <<>> THEN {}
          ELSE TitledViolations(g.Rationale[1].Risks, path \o ".rationale", ".risks")
               \cup TitledViolations(g.Rationale[1].Outcomes, path \o ".rationale", ".outcomes"))
    \cup UNION {Empty(g.GuidelineParts[k].Id = <<>>, At(path, ".guideline-parts", k) \o ".id")
                \cup Empty(g.GuidelineParts[k].Text = <<>>,
                           At(path, ".guideline-parts", k) \o ".text")
                \cup Violation(Duplicate(g.GuidelineParts, k),
                               At(path, ".guideline-parts", k) \o ".id",
                               "duplicate part ID within guideline") :
                k \in DOMAIN g.GuidelineParts}
    \cup UNION {MappingViolations(g.GuidelineMappings[k], At(path, ".guideline-mappings", k)) :
                k \in DOMAIN g.GuidelineMappings}
    \cup UNION {MappingViolations(g.PrincipleMappings[k], At(path, ".principle-mappings", k)) :
                k \in DOMAIN g.PrincipleMappings}

CategoryViolations(c, path) ==
    Empty(c.Id = <<>>, path \o ".id")
    \cup Empty(c.Title = <<>>, path \o ".title")
    \cup Empty(c.Description = <<>>, path \o ".description")
    \cup UNION {GuidelineViolations(c.Guidelines[j], At(path, ".guidelines", j))
                \cup Violation(Duplicate(c.Guidelines, j), At(path, ".guidelines", j) \o ".id",
                               "duplicate guideline ID within category") :
                j \in DOMAIN c.Guidelines}

MetadataViolations(meta, strict) ==
    Empty(meta.Id = <<>>, "metadata.id")
    \cup Empty(meta.Title = <<>>, "metadata.title")
    \cup Empty(meta.Description = <<>>, "metadata.description")
    \cup Empty(meta.Author = <<>>, "metadata.author")
    \cup Violation(meta.DocumentType # <<>> /\ meta.DocumentType \notin ValidDocumentTypes,
                   "metadata.document-type",
                   "must be one of: Standard, Regulation, Best Practice, Framework")
    \cup Violation(meta.DocumentType = <<>> /\ strict, "metadata.document-type",
                   "required field is empty (strict mode)")

Violations(doc, strict) ==
    MetadataViolations(doc.Metadata, strict)
    \cup Violation(doc.Categories = <<>>, "categories",
                   "document must have at least one category")
    \cup UNION {CategoryViolations(doc.Categories[i], At("", "categories", i))
                \cup Violation(Duplicate(doc.Categories, i), At("", "categories", i) \o ".id",
                               "duplicate category ID") : i \in DOMAIN doc.Categories}
    \cup UNION {MappingViolations(doc.ImportedGuidelines[i], At("", "imported-guidelines", i)) :
                i \in DOMAIN doc.ImportedGuidelines}
    \cup UNION {MappingViolations(doc.ImportedPrinciples[i], At("", "imported-principles", i)) :
                i \in DOMAIN doc.ImportedPrinciples}

\* C15: Validate returns one error for each violated rule instance of the whole tree,
\* however many violations come before it, and Valid exactly when there is none; for a
\* nil document it returns Valid = false with the single error "document is nil".
C15_AllViolationsReported ==
    conv.out # <<>> =>
        LET result == conv.out[1].result
        IN  /\ result.Valid <=> result.Errors = <<>>
            /\ conv.doc[1] = <<>> =>
                   result = [Valid |-> FALSE,
                             Errors |-> <<[Path |-> "", Message |-> "document is nil"]>>]
            /\ conv.doc[1] # <<>> =>
                   /\ ErrorSet(result) = Violations(ValidatedDoc, conv.out[1].strict)
                   /\ Len(result.Errors) = Cardinality(ErrorSet(result))

\* A document with violations in the metadata-free part of the tree only: in the second
\* and third category, in guidelines, parts, a rationale and a mapping.
C15_Witness ==
    /\ Validated
    /\ Len(ValidatedDoc.Categories) = 3
    /\ Len(conv.out[1].result.Errors) >= 8
    /\ \E i \in DOMAIN conv.out[1].result.Errors :
           conv.out[1].result.Errors[i].Path
               = "categories[2].guidelines[2].guideline-mappings[1].entries[0].strength"

\* The decimal digit of a position counted from 0.
PathDigit(i) == <<"0", "1", "2", "3", "4", "5", "6", "7", "8", "9">>[i + 1]

GuidelineIdPath(i, j) ==
    "categories[" \o PathDigit(i) \o "].guidelines[" \o PathDigit(j) \o "].id"

PartTextPath(i, j, k) ==
    "categories[" \o PathDigit(i) \o "].guidelines[" \o PathDigit(j)
        \o "].guideline-parts[" \o PathDigit(k) \o "].text"

Required(path) == [Path |-> path, Message |-> "required field is empty"]

\* C16: the guideline at 0-based position j of the category at 0-based position i has an
\* empty id exactly if an error is reported at "categories[i].guidelines[j].id", and its
\* part at position k has an empty text exactly if one is reported at
\* "categories[i].guidelines[j].guideline-parts[k].text".
C16_PathsZeroBased ==
    Validated =>
        \A i \in DOMAIN ValidatedDoc.Categories :
            \A j \in DOMAIN ValidatedDoc.Categories[i].Guidelines :
                LET guide == ValidatedDoc.Categories[i].Guidelines[j]
                IN  /\ guide.Id = <<>>
                           <=> Required(GuidelineIdPath(i - 1, j - 1))
                                   \in ErrorSet(conv.out[1].result)
                    /\ \A k \in DOMAIN guide.GuidelineParts :
                           guide.GuidelineParts[k].Text = <<>>
                               <=> Required(PartTextPath(i - 1, j - 1, k - 1))
                                       \in ErrorSet(conv.out[1].result)

\* The third category's second guideline has no id and its second part no text.
C16_Witness ==
    /\ Validated
    /\ Len(ValidatedDoc.Categories) = 3
    /\ ValidatedDoc.Categories[3].Guidelines[2].Id = <<>>
    /\ ValidatedDoc.Categories[3].Guidelines[2].GuidelineParts[2].Text = <<>>
    /\ Required("categories[2].guidelines[1].id") \in ErrorSet(conv.out[1].result)
    /\ Required("categories[2].guidelines[1].guideline-parts[1].text")
           \in ErrorSet(conv.out[1].result)

\* How often the result holds an error.
ErrorCount(result, error) ==
    Cardinality({e \in DOMAIN result.Errors : result.Errors[e] = error})

\* The errors of the result with one message.
WithMessage(result, message) ==
    {e \in DOMAIN result.Errors : result.Errors[e].Message = message}

\* The non-empty ids of a list of siblings.
SiblingIds(seq) == {seq[i].Id : i \in DOMAIN seq} \ {<<>>}

\* C17: a category whose non-empty id is that of an earlier category gets exactly one
\* error "duplicate category ID" at its own ".id" path, any other category none, so n
\* categories with one id give n - 1 errors; likewise for the guidelines of a category.
C17_OneErrorPerDuplicate ==
    Validated =>
        LET result == conv.out[1].result
            cats == ValidatedDoc.Categories
        IN  /\ \A i \in DOMAIN cats :
                   ErrorCount(result, [Path |-> "categories[" \o PathDigit(i - 1) \o "].id",
                                       Message |-> "duplicate category ID"])
                       = IF Duplicate(cats, i) THEN 1 ELSE 0
            /\ Cardinality(WithMessage(result, "duplicate category ID"))
                   = Cardinality({i \in DOMAIN cats : cats[i].Id # <<>>})
                         - Cardinality(SiblingIds(cats))
            /\ \A i \in DOMAIN cats : \A j \in DOMAIN cats[i].Guidelines :
                   ErrorCount(result, [Path |-> GuidelineIdPath(i - 1, j - 1),
                                       Message |-> "duplicate guideline ID within category"])
                       = IF Duplicate(cats[i].Guidelines, j) THEN 1 ELSE 0

\* Three categories with the id "a": errors at categories[1].id and categories[2].id,
\* none at categories[0].id.
C17_Witness ==
    /\ Validated
    /\ Len(ValidatedDoc.Categories) = 3
    /\ \A i \in 1..3 : ValidatedDoc.Categories[i].Id = <<"a">>
    /\ Cardinality(WithMessage(conv.out[1].result, "duplicate category ID")) = 2
    /\ [Path |-> "categories[1].id", Message |-> "duplicate category ID"]
           \in ErrorSet(conv.out[1].result)
    /\ [Path |-> "categories[0].id", Message |-> "duplicate category ID"]
           \notin ErrorSet(conv.out[1].result)

\* The two requirements the claim gives to strict mode alone.
StrictOnly ==
    {[Path |-> "metadata.document-type", Message |-> "required field is empty (strict mode)"],
     [Path |-> "categories", Message |-> "document must have at least one category"]}

\* C18: the errors of strict mode are those of non-strict mode plus at most the missing
\* document type and the empty category list; a document with no other defect than
\* these is Valid in non-strict mode and not Valid in strict mode.
C18_StrictAddsTwoRules ==
    Validated =>
        LET strict == Validate(ValidatedDoc, TRUE)
            lenient == Validate(ValidatedDoc, FALSE)
        IN  /\ ErrorSet(lenient) \subseteq ErrorSet(strict)
            /\ ErrorSet(strict) \ ErrorSet(lenient) \subseteq StrictOnly
            /\ (ErrorSet(strict) # {} /\ ErrorSet(strict) \subseteq StrictOnly)
                   => lenient.Valid /\ ~strict.Valid

\* C19: a document without categories is not Valid in either mode, non-strict
\* included: the errors hold "document must have at least one category" at "categories".
C19_EmptyCategoriesRejected ==
    Validated /\ ValidatedDoc.Categories = <<>> =>
        /\ ~conv.out[1].result.Valid
        /\ [Path |-> "categories", Message |-> "document must have at least one category"]
               \in ErrorSet(conv.out[1].result)

\* Non-strict validation of a document with complete metadata and no category: the
\* one error is that of the categories.
C19_Witness ==
    /\ Validated
    /\ ~conv.out[1].strict
    /\ ValidatedDoc = L1Document(MetaOK, <<>>, <<>>)
    /\ conv.out[1].result
           = [Valid |-> FALSE,
              Errors |-> <<[Path |-> "categories",
                            Message |-> "document must have at least one category"]>>]

UniqueIds(seq) == \A i, j \in DOMAIN seq : i # j => seq[i].Id # seq[j].Id

\* C22: in a document for which Validate returns Valid the category ids are pairwise
\* distinct, the guideline ids are so within each category and the part ids within
\* each guideline.
C22_ValidHasUniqueIds ==
    (Validated /\ conv.out[1].result.Valid) =>
        /\ UniqueIds(ValidatedDoc.Categories)
        /\ \A i \in DOMAIN ValidatedDoc.Categories :
               LET guides == ValidatedDoc.Categories[i].Guidelines
               IN  /\ UniqueIds(guides)
                   /\ \A j \in DOMAIN guides : UniqueIds(guides[j].GuidelineParts)

\* A Valid document with two categories, two guidelines in one of them and two parts
\* in one of these.
C22_Witness ==
    /\ Validated /\ conv.out[1].result.Valid
    /\ Len(ValidatedDoc.Categories) = 2
    /\ Len(ValidatedDoc.Categories[1].Guidelines) = 2
    /\ Len(ValidatedDoc.Categories[1].Guidelines[1].GuidelineParts) = 2

(***************************************************************************)
(* coverage.go: the coverage analyzer.  A float64 is held as the exact     *)
(* fraction num/den (den > 0) of the integers it is computed from; the     *)
(* rounding of the float operations is not modelled.                       *)
(***************************************************************************)
Rat(num, den) == [num |-> num, den |-> den]

RatAdd(a, b) == Rat(a.num * b.den + b.num * a.den, a.den * b.den)

\* a >= n and a <= n for an integer n.
RatGeq(a, n) == a.num >= n * a.den
RatLeq(a, n) == a.num <= n * a.den

\* The fields of the list that are filled ("" and the nil pointer are <<>>).
Covered(fields) == Cardinality({i \in DOMAIN fields : fields[i] # <<>>})

RECURSIVE TotalBlocks(_)
TotalBlocks(pages) ==
    IF pages = <<>> THEN 0 ELSE Len(Head(pages).Blocks) + TotalBlocks(Tail(pages))

\* The tiers of a score.
Quality(score, lowest) ==
    IF RatGeq(score, 90) THEN "excellent"
    ELSE IF RatGeq(score, 70) THEN "good"
    ELSE IF RatGeq(score, 50) THEN "fair"
    ELSE lowest

ZeroMetrics ==
    [BlockCoverage |-> Rat(0, 1),
     RequiredFieldsCovered |-> 0, RequiredFieldsTotal |-> 0,
     OptionalFieldsCovered |-> 0, OptionalFieldsTotal |-> 0,
     OverallScore |-> Rat(0, 1),
     QualityIndicators |-> <<>>]

calculateCoverageMetrics(parsed, segmented) ==
    IF parsed = <<>> \/ segmented = <<>> THEN ZeroMetrics
    ELSE
        LET totalBlocks == TotalBlocks(parsed[1].Pages)
            unmappedBlocks == Len(segmented[1].UnmappedContent)
            mappedBlocks == totalBlocks - unmappedBlocks
            blockCoverage ==
                IF totalBlocks > 0 THEN Rat(mappedBlocks * 100, totalBlocks) ELSE Rat(0, 1)
            meta == segmented[1].DocumentMetadata
            required == Covered(<<meta.ID, meta.Title, meta.Description, meta.Author>>)
            optional == Covered(<<meta.Version, meta.PublicationDate, meta.DocumentType,
                                  meta.Jurisdictions>>)
            requiredScore == Rat(required * 60, 4)
            optionalScore == Rat(optional * 20, 4)
            blockScore == Rat(blockCoverage.num * 2, blockCoverage.den * 10)
            overall == RatAdd(RatAdd(requiredScore, optionalScore), blockScore)
        IN  [BlockCoverage |-> blockCoverage,
             RequiredFieldsCovered |-> required, RequiredFieldsTotal |-> 4,
             OptionalFieldsCovered |-> optional, OptionalFieldsTotal |-> 4,
             OverallScore |-> overall,
             QualityIndicators |->
                 [k \in {"overall", "content_capture"} |->
                     IF k = "overall" THEN Quality(overall, "needs_improvement")
                     ELSE IF RatGeq(blockCoverage, 90) THEN "comprehensive"
                     ELSE IF RatGeq(blockCoverage, 70) THEN "substantial"
                     ELSE "partial"]]

calculateLayer1Coverage(doc) ==
    IF doc = <<>> THEN ZeroMetrics
    ELSE
        LET meta == doc[1].Metadata
            required == Covered(<<meta.Id, meta.Title, meta.Description, meta.Author>>)
            optional == Covered(<<meta.DocumentType, meta.Version, meta.PublicationDate,
                                  doc[1].FrontMatter, meta.Applicability>>)
            overall == RatAdd(Rat(required * 70, 4), Rat(optional * 30, 5))
            cats == doc[1].Categories
            hasGuidelines == \E i \in DOMAIN cats : Len(cats[i].Guidelines) > 0
            hasParts == \E i \in DOMAIN cats : \E j \in DOMAIN cats[i].Guidelines :
                            Len(cats[i].Guidelines[j].GuidelineParts) > 0
        IN  [BlockCoverage |-> Rat(0, 1),
             RequiredFieldsCovered |-> required, RequiredFieldsTotal |-> 4,
             OptionalFieldsCovered |-> optional, OptionalFieldsTotal |-> 5,
             OverallScore |-> overall,
             QualityIndicators |->
                 [k \in {"completeness", "content_depth"} |->
                     IF k = "completeness" THEN Quality(overall, "incomplete")
                     ELSE IF Len(cats) = 0 THEN "empty"
                     ELSE IF hasParts THEN "detailed"
                     ELSE IF hasGuidelines THEN "moderate"
                     ELSE "shallow"]]

\* The run-time panic of reading a field through a nil pointer.
NilPanic == [panic |-> TRUE]

\* The report, as far as the metrics go: its statistics, gaps and recommendations do
\* not enter them.
AnalyzeFromSegmented(parsed, segmented) ==
    IF segmented = <<>> THEN NilPanic
    ELSE [panic |-> FALSE,
          DocumentID |-> segmented[1].Metadata.DocumentID,
          UnmappedContent |-> segmented[1].UnmappedContent,
          CoverageMetrics |-> calculateCoverageMetrics(parsed, segmented)]

AnalyzeLayer1(doc) ==
    IF doc = <<>> THEN NilPanic
    ELSE [panic |-> FALSE,
          DocumentID |-> doc[1].Metadata.Id,
          CoverageMetrics |-> calculateLayer1Coverage(doc)]

(***************************************************************************)
(* The analyzer on its own: each behaviour analyses one input, which is a  *)
(* parsed and a segmented document or a Layer-1 document, any of them nil. *)
(***************************************************************************)
Filled == {<<>>, S_Test}

UnmappedItem == [ContentType |-> "table", Content |-> S_Test, SuggestedField |-> <<>>]

CoveragePage == {NewPage(1, [i \in 1..n |-> Block("paragraph", 0, S_Test)]) :
                    n \in 0..MaxCoverageBlocks}

CoverageParsed ==
    {<<>>} \cup {<<NewParsedDocument(D1, pages)>> :
                    pages \in UNION {[1..n -> CoveragePage] : n \in 0..2}}

CoverageSegmented ==
    {<<>>} \cup
    {<<[Metadata |-> [SourceVersion |-> 1, Version |-> 1, DocumentID |-> D1],
        DocumentMetadata |->
            [ID |-> f[1], Title |-> f[2], Description |-> f[3], Author |-> f[4],
             Version |-> f[5], PublicationDate |-> f[6], DocumentType |-> f[7],
             Jurisdictions |-> IF f[8] = <<>> THEN <<>> ELSE <<f[8]>>,
             IndustrySectors |-> <<>>],
        FrontMatter |-> <<>>,
        Categories |-> <<>>,
        UnmappedContent |-> [i \in 1..u |-> UnmappedItem]]>> :
        f \in [1..8 -> Filled], u \in 0..MaxUnmapped}

CoverageCategories ==
    {<<>>, <<L1Category(<<"a">>, S_Test, S_Test, <<>>)>>,
     <<L1Category(<<"a">>, S_Test, S_Test, <<L1Guideline(<<"g">>, S_Test, <<>>, <<>>, <<>>)>>)>>,
     <<L1Category(<<"a">>, S_Test, S_Test, <<GuideOK>>)>>}

CoverageLayer1 ==
    {<<>>} \cup
    {<<[Metadata |-> [Id |-> f[1], Title |-> f[2], Description |-> f[3], Author |-> f[4],
                      Version |-> f[5], PublicationDate |-> f[6], DocumentType |-> f[7],
                      Applicability |-> IF f[8] = <<>> THEN <<>>
                                        ELSE <<[IndustrySectors |-> <<>>,
                                                Jurisdictions |-> <<f[8]>>]>>,
                      MappingReferences |-> <<>>],
        FrontMatter |-> f[9],
        Categories |-> cats,
        ImportedGuidelines |-> <<>>, ImportedPrinciples |-> <<>>]>> :
        f \in [1..9 -> Filled], cats \in CoverageCategories}

CoverageInputs ==
    {[entry |-> "segmented", parsed |-> parsed, segmented |-> segmented] :
        parsed \in CoverageParsed, segmented \in CoverageSegmented}
    \cup {[entry |-> "layer1", doc |-> doc] : doc \in CoverageLayer1}

\* report = analyzer.AnalyzeFromSegmented(parsed, segmented)
AnalyzeFromSegmentedCall ==
    /\ conv.doc # <<>> /\ conv.out = <<>>
    /\ conv.doc[1].entry = "segmented"
    /\ conv' = [conv EXCEPT !.out =
                   <<AnalyzeFromSegmented(conv.doc[1].parsed, conv.doc[1].segmented)>>]
    /\ UNCHANGED nonConvVars

\* report = analyzer.AnalyzeLayer1(layer1Doc)
AnalyzeLayer1Call ==
    /\ conv.doc # <<>> /\ conv.out = <<>>
    /\ conv.doc[1].entry = "layer1"
    /\ conv' = [conv EXCEPT !.out = <<AnalyzeLayer1(conv.doc[1].doc)>>]
    /\ UNCHANGED nonConvVars

InitCoverage ==
    /\ StoreInit
    /\ SegIdle
    /\ \E input \in CoverageInputs : conv = [doc |-> <<input>>, out |-> <<>>]
    /\ PipeIdle
    /\ ConcIdle

NextCoverage == AnalyzeFromSegmentedCall \/ AnalyzeLayer1Call

SpecCoverage == InitCoverage /\ [][NextCoverage]_vars

\* An analysis has returned a report.
Analysed == conv.doc # <<>> /\ conv.out # <<>> /\ ~conv.out[1].panic

\* C20: every report of AnalyzeFromSegmented and of AnalyzeLayer1 has an OverallScore
\* from 0 to 100, whatever the numbers of blocks and of unmapped items and whichever
\* fields are filled, and a BlockCoverage of 0 when the parsed document has no block.
C20_ScoreInRange ==
    Analysed =>
        LET metrics == conv.out[1].CoverageMetrics
        IN  /\ metrics.OverallScore.den > 0 /\ metrics.BlockCoverage.den > 0
            /\ RatGeq(metrics.OverallScore, 0)
            /\ RatLeq(metrics.OverallScore, 100)
            /\ (conv.doc[1].entry = "segmented" /\ conv.doc[1].parsed # <<>>
                    /\ TotalBlocks(conv.doc[1].parsed[1].Pages) = 0)
                   => metrics.BlockCoverage.num = 0

(***************************************************************************)
(* llm/enhancer.go: the mock enhancer.  It returns the document it was     *)
(* given and records one change.                                           *)
(***************************************************************************)
S_Enhanced == <<" ", "(", "E", "n", "h", "a", "n", "c", "e", "d", ")">>

EnhanceSegmentation(doc) ==
    [OriginalData |-> doc,
     EnhancedData |-> doc,
     Changes |-> <<[Path |-> "metadata.description", Type |-> "modify",
                    OldValue |-> doc.DocumentMetadata.Description,
                    NewValue |-> doc.DocumentMetadata.Description \o S_Enhanced]>>,
     Provider |-> "mock-v1.0"]

(***************************************************************************)
(* main.go: the stage commands cmdParse, cmdSegment, cmdEnhance, cmdRunAll *)
(* and cmdCoverage, without I/O failures.  Each result holds the store the *)
(* command leaves, the error it returns ("nil": none) and the versions it  *)
(* read and saved (0: none).                                               *)
(***************************************************************************)
RECURSIVE Itoa(_)
Itoa(n) ==
    LET digit == <<"0", "1", "2", "3", "4", "5", "6", "7", "8", "9">>[(n % 10) + 1]
    IN  IF n < 10 THEN <<digit>> ELSE Itoa(n \div 10) \o <<digit>>

\* fmt.Sprintf("post-enhance-%s (pre-enhance: v%d)", "mock", preEnhanceVersion)
EnhanceLabel(preEnhanceVersion) ==
    <<"p", "o", "s", "t", "-", "e", "n", "h", "a", "n", "c", "e", "-", "m", "o", "c", "k",
      " ", "(", "p", "r", "e", "-", "e", "n", "h", "a", "n", "c", "e", ":", " ", "v">>
        \o Itoa(preEnhanceVersion) \o <<")">>

S_InputFile == <<"d", "1", ".", "p", "d", "f">>

\* p.Parse(filePath) of the simple parser; pages is what parseTextContent makes of the
\* text of the file: a slice it declares and appends to, nil when no page has a block.
Parse(filePath, pages) ==
    [Metadata |-> [SourceFile |-> filePath, Parser |-> S_SimpleParser, ParsedAt |-> now,
                   Version |-> 0, DocumentID |-> <<>>],
     Pages |-> pages, NilPages |-> pages = <<>>]

\* The index of the last c in s, 0 without one.
LastIndex(s, c) ==
    LET at == {i \in 1..Len(s) : s[i] = c}
    IN  IF at = {} THEN 0 ELSE CHOOSE i \in at : \A j \in at : j <= i

RECURSIVE TrimSlashes(_)
TrimSlashes(path) ==
    IF path # <<>> /\ path[Len(path)] = "/"
    THEN TrimSlashes(SubSeq(path, 1, Len(path) - 1))
    ELSE path

\* filepath.Base(path): the last element of the path, trailing slashes removed.
Base(path) ==
    IF path = <<>> THEN <<".">>
    ELSE LET trimmed == TrimSlashes(path)
             last == SubSeq(trimmed, LastIndex(trimmed, "/") + 1, Len(trimmed))
         IN  IF last = <<>> THEN <<"/">> ELSE last

\* filepath.Ext(path): the suffix from the last dot of the last element of the path.
Ext(path) ==
    IF LastIndex(path, ".") > LastIndex(path, "/")
    THEN SubSeq(path, LastIndex(path, "."), Len(path))
    ELSE <<>>

\* *documentID after cmdParse: the flag, or the file name without its extension.
ParseDocumentID(inputFile, id) ==
    IF id = <<>>
    THEN SubSeq(Base(inputFile), 1, Len(Base(inputFile)) - Len(Ext(Base(inputFile))))
    ELSE id

\* The flag *documentID is set before the parser runs; doc, err := p.Parse(*inputFile);
\* doc.Metadata.DocumentID = *documentID; store.SaveParsed(doc).  id in the result is
\* the value of the flag when the command returns.
cmdParse(d, f, inputFile, id, pages) ==
    IF inputFile = <<>>
    THEN [dirs |-> d, files |-> f, err |-> "Usage", id |-> id, parsedSaved |-> 0]
    ELSE LET documentID == ParseDocumentID(inputFile, id)
             doc == [Parse(inputFile, pages) EXCEPT !.Metadata.DocumentID = documentID]
             saved == SaveParsed(d, f, doc, "none", FALSE)
         IN  [dirs |-> saved.dirs, files |-> saved.files,
              err |-> IF saved.err = "nil" THEN "nil" ELSE "Save",
              id |-> documentID,
              parsedSaved |-> saved.doc.Metadata.Version]

\* Saves under the version of the latest segmented artifact instead of a new one.
SaveSegmentedStage_latest(d, f, doc) ==
    LET latest == getLatestVersion(d, f, doc.Metadata.DocumentID, "segmented", "none")
        data == SetVersion(doc, IF latest = 0 THEN 1 ELSE latest)
        path == <<doc.Metadata.DocumentID, data.Metadata.Version, ArtifactFile("segmented")>>
    IN  [dirs |-> MkdirAll(d, doc.Metadata.DocumentID, data.Metadata.Version),
         files |-> WriteFile(f, path, MarshalSegmented(data)), doc |-> data, err |-> "nil"]

\* store.SaveSegmented(segmented) of cmdSegment
SaveSegmentedStage(d, f, doc) == SaveSegmented(d, f, doc, "none", FALSE)

\* In the commands below a value that the code computes once and then uses is named
\* by a bound variable that ranges over that one value (x \in {e}).

\* cmdSegment after a successful LoadParsed.
segmentLoaded(d, f, parsed) ==
    CHOOSE r \in
        {[dirs |-> saved.dirs, files |-> saved.files,
          err |-> IF saved.err = "nil" THEN "nil" ELSE "Save",
          parsedRead |-> parsed.Metadata.Version,
          segmentedSaved |-> saved.doc.Metadata.Version] :
            saved \in {SaveSegmentedStage(d, f, segmented) :
                          segmented \in {Segment(parsed)}}} : TRUE

cmdSegment(d, f, id, sourceVersion) ==
    IF id = <<>>
    THEN [dirs |-> d, files |-> f, err |-> "Usage", parsedRead |-> 0, segmentedSaved |-> 0]
    ELSE CHOOSE r \in
             {IF parsed.err # "nil"
              THEN [dirs |-> d, files |-> f, err |-> "Load", parsedRead |-> 0,
                    segmentedSaved |-> 0]
              ELSE segmentLoaded(d, f, parsed.doc) :
                 parsed \in {LoadParsed(d, f, id, sourceVersion, "none")}} : TRUE

\* cmdEnhance after a successful LoadSegmented, with --llm-provider mock.
enhanceLoaded(d, f, segmented, strict) ==
    LET preEnhanceVersion == segmented.Metadata.Version
        enhancedDoc == EnhanceSegmentation(segmented).EnhancedData
    IN  CHOOSE r \in
            {IF saved.err # "nil"
             THEN [dirs |-> saved.dirs, files |-> saved.files, err |-> "Save",
                   segmentedRead |-> preEnhanceVersion, segmentedSaved |-> 0]
             ELSE CHOOSE v \in
                      {[dirs |-> saved.dirs, files |-> saved.files,
                        err |-> IF ~Validate(layer1Doc, strict).Valid /\ strict
                                THEN "Validation" ELSE "nil",
                        segmentedRead |-> preEnhanceVersion,
                        segmentedSaved |-> saved.doc.Metadata.Version] :
                          layer1Doc \in {Convert(saved.doc)}} : TRUE :
                saved \in {SaveSegmentedWithLabel(d, f, enhancedDoc,
                                                  EnhanceLabel(preEnhanceVersion),
                                                  "none", FALSE)}} : TRUE

cmdEnhance(d, f, id, sourceVersion, strict) ==
    IF id = <<>>
    THEN [dirs |-> d, files |-> f, err |-> "Usage", segmentedRead |-> 0,
          segmentedSaved |-> 0]
    ELSE CHOOSE r \in
             {IF segmented.err # "nil"
              THEN [dirs |-> d, files |-> f, err |-> "Load", segmentedRead |-> 0,
                    segmentedSaved |-> 0]
              ELSE enhanceLoaded(d, f, segmented.doc, strict) :
                 segmented \in {LoadSegmented(d, f, id, sourceVersion, "none")}} : TRUE

\* cmdRunAll after cmdParse and cmdSegment returned no error: cmdConvert.
runAllConvert(parse, segment, ff, rp, timestamp, id, sourceVersion, strict, saveReport, format) ==
    CHOOSE r \in
        {[dirs |-> segment.dirs, files |-> segment.files,
          finalFiles |-> convert.finalFiles, reports |-> convert.reports,
          err |-> convert.err, stage |-> "convert", id |-> id,
          savedFinal |-> convert.savedFinal,
          parsedSaved |-> parse.parsedSaved, parsedRead |-> segment.parsedRead,
          segmentedSaved |-> segment.segmentedSaved,
          segmentedRead |-> IF convertRead.err = "nil"
                            THEN convertRead.doc.Metadata.Version ELSE 0] :
            convert \in {cmdConvert(segment.dirs, segment.files, ff, rp, timestamp, id,
                                    sourceVersion, strict, saveReport, format)},
            convertRead \in {LoadSegmented(segment.dirs, segment.files, id, sourceVersion,
                                           "none")}} : TRUE

\* parse -> segment -> convert, each with the options of the one command line; the
\* stages after cmdParse read the flag *documentID as cmdParse left it.
cmdRunAll(d, f, ff, rp, timestamp, inputFile, id, pages, sourceVersion, strict, saveReport, format) ==
    LET none == [dirs |-> d, files |-> f, finalFiles |-> ff, reports |-> rp, err |-> "nil",
                 stage |-> "parse", id |-> id, savedFinal |-> FALSE,
                 parsedSaved |-> 0, parsedRead |-> 0,
                 segmentedSaved |-> 0, segmentedRead |-> 0]
    IN  CHOOSE r \in
            {IF parse.err # "nil"
             THEN [none EXCEPT !.dirs = parse.dirs, !.files = parse.files,
                               !.err = parse.err, !.id = parse.id]
             ELSE CHOOSE v \in
                      {IF segment.err # "nil"
                       THEN [none EXCEPT !.dirs = segment.dirs, !.files = segment.files,
                                         !.err = segment.err, !.stage = "segment",
                                         !.id = parse.id,
                                         !.parsedSaved = parse.parsedSaved]
                       ELSE runAllConvert(parse, segment, ff, rp, timestamp, parse.id,
                                          sourceVersion, strict, saveReport, format) :
                          segment \in {cmdSegment(parse.dirs, parse.files, parse.id,
                                                  sourceVersion)}} : TRUE :
                parse \in {cmdParse(d, f, inputFile, id, pages)}} : TRUE

\* json.Unmarshal into a SegmentedDocument: the file has no unmapped content.
WithUnmappedContent(doc) ==
    [Metadata |-> doc.Metadata, DocumentMetadata |-> doc.DocumentMetadata,
     FrontMatter |-> doc.FrontMatter, Categories |-> doc.Categories,
     UnmappedContent |-> <<>>]

\* cmdCoverage with --document-id and without --save-report: which analysis is made,
\* and of which documents.
coverageLoaded(final, segmented, parsed) ==
    IF segmented.err = "nil" /\ parsed.err = "nil"
    THEN [err |-> "nil", analysed |-> "segmented",
          parsedRead |-> parsed.doc.Metadata.Version,
          segmentedRead |-> segmented.doc.Metadata.Version,
          segmentedSource |-> segmented.doc.Metadata.SourceVersion,
          report |-> <<AnalyzeFromSegmented(<<parsed.doc>>,
                                            <<WithUnmappedContent(segmented.doc)>>)>>]
    ELSE IF final.err = "nil"
    THEN [err |-> "nil", analysed |-> "layer1", parsedRead |-> 0, segmentedRead |-> 0,
          segmentedSource |-> 0, report |-> <<AnalyzeLayer1(<<final.doc>>)>>]
    ELSE [err |-> "NoDocuments", analysed |-> "none", parsedRead |-> 0,
          segmentedRead |-> 0, segmentedSource |-> 0, report |-> <<>>]

cmdCoverage(d, f, ff, id, sourceVersion) ==
    IF id = <<>>
    THEN [err |-> "Usage", analysed |-> "none", parsedRead |-> 0, segmentedRead |-> 0,
          segmentedSource |-> 0, report |-> <<>>]
    ELSE CHOOSE r \in
             {coverageLoaded(final, segmented, parsed) :
                 final \in {LoadFinal(ff, id, "none")},
                 segmented \in {LoadSegmented(d, f, id, sourceVersion, "none")},
                 parsed \in {LoadParsed(d, f, id, sourceVersion, "none")}} : TRUE

(***************************************************************************)
(* SpecStage: the stage commands run one after the other on one store, for *)
(* one document id, every value of --source-version and of --strict.       *)
(***************************************************************************)
StageID == D1

\* --input: not given, or a file whose name without extension is the document id.
StageInputFiles == {<<>>, S_InputFile}

\* --document-id: not given, or the document id.
StageDocumentIDs == {<<>>, StageID}

\* The blocks parseTextContent makes of the lines "1. Access Control", "Implement
\* strong access control.", "1.1 User Authentication", "Ensure MFA.", "- item one".
ParsedStream ==
    <<HeadingBlock(1, T_AccessControl), Block("paragraph", 0, T_Implement),
      HeadingBlock(2, T_UserAuthentication), Block("paragraph", 0, T_EnsureMFA),
      ListBlock(<<"-">>, "unordered", 1, T_ItemOne)>>

\* What parseTextContent returns: no page for a text without blocks (a page is kept
\* only when it has a block), and one page with the blocks of the lines above.
StagePages == {<<>>, <<NewPage(1, ParsedStream)>>}

StageVersions == 0..2

\* The command that ran last, with the versions it read and saved.
StageCmd(cmd, id, sourceVersion, strict, r) ==
    [cmd |-> cmd, id |-> id, err |-> r.err, savedFinal |-> r.savedFinal,
     sourceVersion |-> sourceVersion, strict |-> strict,
     parsedSaved |-> r.parsedSaved, parsedRead |-> r.parsedRead,
     segmentedSaved |-> r.segmentedSaved, segmentedRead |-> r.segmentedRead,
     segmentedSource |-> r.segmentedSource, analysed |-> r.analysed]

NoVersions ==
    [savedFinal |-> FALSE, parsedSaved |-> 0, parsedRead |-> 0, segmentedSaved |-> 0,
     segmentedRead |-> 0, segmentedSource |-> 0, analysed |-> "none"]

\* The versions handed out, by type, after a command saved some for the document id.
StageAssigned(id, parsedSaved, segmentedSaved) ==
    [k \in DOMAIN assigned |->
        IF k = <<id, "parsed">> /\ parsedSaved # 0 THEN Append(assigned[k], parsedSaved)
        ELSE IF k = <<id, "segmented">> /\ segmentedSaved # 0
        THEN Append(assigned[k], segmentedSaved)
        ELSE assigned[k]]

StageStep(cmd, id, sourceVersion, strict, r) ==
    /\ dirs' = r.dirs
    /\ files' = r.files
    /\ assigned' = StageAssigned(id, r.parsedSaved, r.segmentedSaved)
    /\ lastCmd' = StageCmd(cmd, id, sourceVersion, strict, r)

CmdParse(inputFile, id, pages) ==
    /\ nSaves + 1 <= MaxStageSaves
    /\ nSaves' = nSaves + 1
    /\ \E r \in {cmdParse(dirs, files, inputFile, id, pages)} :
          StageStep("parse", r.id, 0, FALSE, r @@ NoVersions)
    /\ UNCHANGED <<finalFiles, lastFinal, lastOp, reports, now>>
    /\ UNCHANGED <<segVars, convVars, concVars>>

CmdSegment(sourceVersion) ==
    /\ nSaves + 1 <= MaxStageSaves
    /\ nSaves' = nSaves + 1
    /\ \E r \in {cmdSegment(dirs, files, StageID, sourceVersion)} :
          StageStep("segment", StageID, sourceVersion, FALSE, r @@ NoVersions)
    /\ UNCHANGED <<finalFiles, lastFinal, lastOp, reports, now>>
    /\ UNCHANGED <<segVars, convVars, concVars>>

CmdEnhance(sourceVersion, strict) ==
    /\ nSaves + 1 <= MaxStageSaves
    /\ nSaves' = nSaves + 1
    /\ \E r \in {cmdEnhance(dirs, files, StageID, sourceVersion, strict)} :
          StageStep("enhance", StageID, sourceVersion, strict, r @@ NoVersions)
    /\ UNCHANGED <<finalFiles, lastFinal, lastOp, reports, now>>
    /\ UNCHANGED <<segVars, convVars, concVars>>

\* The final that run-all saved is the conversion of the segmented document that its
\* convert stage loaded from the store the segment stage left.
CmdRunAll(inputFile, id, pages, sourceVersion, strict) ==
    /\ nSaves + 2 <= MaxStageSaves
    /\ nSaves' = nSaves + 2
    /\ \E r \in {cmdRunAll(dirs, files, finalFiles, reports, now, inputFile, id, pages,
                           sourceVersion, strict, FALSE, "yaml")} :
          /\ StageStep("run-all", r.id, sourceVersion, strict, r @@ NoVersions)
          /\ finalFiles' = r.finalFiles
          /\ reports' = r.reports
          /\ lastFinal' = IF r.savedFinal /\ r.err = "nil"
                          THEN [lastFinal EXCEPT ![r.id] =
                                   <<Convert(LoadSegmented(r.dirs, r.files, r.id,
                                                           sourceVersion, "none").doc)>>]
                          ELSE lastFinal
    /\ UNCHANGED <<lastOp, now>>
    /\ UNCHANGED <<segVars, convVars, concVars>>

CmdCoverage(sourceVersion) ==
    /\ \E r \in {cmdCoverage(dirs, files, finalFiles, StageID, sourceVersion)} :
          lastCmd' = StageCmd("coverage", StageID, sourceVersion, FALSE,
                              [savedFinal |-> FALSE, parsedSaved |-> 0,
                               segmentedSaved |-> 0] @@ r)
    /\ UNCHANGED <<dirs, files, assigned, nSaves, finalFiles, lastFinal, lastOp,
                   reports, now>>
    /\ UNCHANGED <<segVars, convVars, concVars>>

NextStage ==
    \/ \E inputFile \in StageInputFiles, id \in StageDocumentIDs, pages \in StagePages :
            CmdParse(inputFile, id, pages)
    \/ \E sourceVersion \in StageVersions : CmdSegment(sourceVersion)
    \/ \E sourceVersion \in StageVersions, strict \in BOOLEAN :
            CmdEnhance(sourceVersion, strict)
    \/ \E inputFile \in StageInputFiles, id \in StageDocumentIDs, pages \in StagePages,
          sourceVersion \in StageVersions, strict \in BOOLEAN :
            CmdRunAll(inputFile, id, pages, sourceVersion, strict)
    \/ \E sourceVersion \in StageVersions : CmdCoverage(sourceVersion)

SpecStage == Init /\ [][NextStage]_vars

\* The versions of the segmented artifacts of the document that load back.
StoredSegmented(d, f) ==
    {v \in 1..(MaxStageSaves + 1) : loadVersioned(d, f, StageID, v, "segmented", "none").err = "nil"}

\* C21: a segment command that succeeds saves under the number after the latest
\* segmented version, so k runs against one parsed version give k consecutive
\* versions, and every file stored before (artifact or sidecar) is unchanged: the
\* parsed input and the earlier segmented versions load back as before.
C21_RerunSegmentIsNew ==
    [][(nSaves' = nSaves + 1 /\ lastCmd'.cmd = "segment" /\ lastCmd'.err = "nil") =>
           /\ lastCmd'.segmentedSaved
                  = getLatestVersion(dirs, files, StageID, "segmented", "none") + 1
           /\ lastCmd'.segmentedSaved \notin StoredSegmented(dirs, files)
           /\ StoredSegmented(dirs', files')
                  = StoredSegmented(dirs, files) \cup {lastCmd'.segmentedSaved}
           /\ \A path \in DOMAIN files : path \in DOMAIN files' /\ files'[path] = files[path]
           /\ \A t \in Types, v \in 1..(MaxStageSaves + 1) :
                  loadVersioned(dirs, files, StageID, v, t, "none").err = "nil" =>
                      loadVersioned(dirs', files', StageID, v, t, "none")
                          = loadVersioned(dirs, files, StageID, v, t, "none")]_vars

\* The segment command ran a second time against parsed version 1: segmented versions
\* 1 and 2 are both derived from it.
C21_Witness ==
    /\ lastCmd.cmd = "segment" /\ lastCmd.err = "nil"
    /\ lastCmd.parsedRead = 1 /\ lastCmd.segmentedSaved = 2
    /\ LoadSegmented(dirs, files, StageID, 1, "none").err = "nil"
    /\ LoadSegmented(dirs, files, StageID, 1, "none").doc.Metadata.SourceVersion = 1
    /\ LoadSegmented(dirs, files, StageID, 2, "none").doc.Metadata.SourceVersion = 1

\* C25: in run-all the segment stage reads the parsed version that the parse stage of
\* this run saved, and the convert stage reads the segmented version that the segment
\* stage of this run saved, whatever the source-version option and the store before.
C25_RunAllChain ==
    lastCmd.cmd = "run-all" =>
        /\ lastCmd.parsedRead # 0 => lastCmd.parsedRead = lastCmd.parsedSaved
        /\ lastCmd.segmentedRead # 0 => lastCmd.segmentedRead = lastCmd.segmentedSaved

\* C26: when the coverage command compares a parsed with a segmented document, the
\* segmented document was derived from that parsed document.
C26_CoverageSameSource ==
    (lastCmd.cmd = "coverage" /\ lastCmd.analysed = "segmented") =>
        lastCmd.segmentedSource = lastCmd.parsedRead

\* C29: an enhance command that returns the validation error leaves the store as it
\* was: no new segmented version, and LoadSegmented(id, 0) returns the same document.
C29_FailedEnhanceLeavesStore ==
    [][(nSaves' = nSaves + 1 /\ lastCmd'.cmd = "enhance" /\ lastCmd'.err = "Validation") =>
           /\ dirs' = dirs
           /\ files' = files
           /\ StoredSegmented(dirs', files') = StoredSegmented(dirs, files)
           /\ LoadSegmented(dirs', files', StageID, 0, "none")
                  = LoadSegmented(dirs, files, StageID, 0, "none")]_vars

\* The versions of the parsed artifacts of the document that load back.
StoredParsed(d, f) ==
    {v \in 1..(MaxStageSaves + 1) : loadVersioned(d, f, StageID, v, "parsed", "none").err = "nil"}

\* Every stored segmented version names an existing parsed version and its own id.
SegmentedHaveSource ==
    \A v \in StoredSegmented(dirs, files) :
        LET doc == LoadSegmented(dirs, files, StageID, v, "none").doc
        IN  /\ doc.Metadata.SourceVersion \in StoredParsed(dirs, files)
            /\ LoadParsed(dirs, files, StageID, doc.Metadata.SourceVersion, "none")
                   .doc.Metadata.DocumentID = StageID
            /\ doc.Metadata.DocumentID = StageID
            /\ doc.Metadata.Version = v

\* An enhance command that saved wrote the version after the latest one and left the
\* version it loaded as it was.
EnhanceSavesNew ==
    (nSaves' = nSaves + 1 /\ lastCmd'.cmd = "enhance" /\ lastCmd'.segmentedSaved # 0) =>
        /\ lastCmd'.segmentedSaved
               = getLatestVersion(dirs, files, StageID, "segmented", "none") + 1
        /\ lastCmd'.segmentedRead \in StoredSegmented(dirs, files)
        /\ lastCmd'.segmentedRead # lastCmd'.segmentedSaved
        /\ LoadSegmented(dirs', files', StageID, lastCmd'.segmentedRead, "none")
               = LoadSegmented(dirs, files, StageID, lastCmd'.segmentedRead, "none")
        /\ \A path \in DOMAIN files : path \in DOMAIN files' /\ files'[path] = files[path]

\* C30: every segmented version stored by the segment and enhance commands records as
\* SourceVersion the version of a parsed artifact stored for the same id and as
\* DocumentID the id it is stored under; the enhance command stores its result as
\* latest + 1 and leaves the version it loaded unchanged in the store.
C30_SegmentedProvenance ==
    [][SegmentedHaveSource /\ SegmentedHaveSource' /\ EnhanceSavesNew]_vars

\* An enhance command loaded segmented version 1 and stored version 2, which names the
\* same parsed version 1.
C30_Witness ==
    /\ lastCmd.cmd = "enhance" /\ lastCmd.err = "nil"
    /\ lastCmd.segmentedRead = 1 /\ lastCmd.segmentedSaved = 2
    /\ StoredSegmented(dirs, files) = {1, 2}
    /\ LoadSegmented(dirs, files, StageID, 2, "none").doc.Metadata.SourceVersion = 1

(***************************************************************************)
(* What the store shows for one document and type, read without faults.    *)
(***************************************************************************)
ListedVersions(id, docType) ==
    LET metas == ListVersions(dirs, files, id, docType, "none").metas
    IN  [k \in 1..Len(metas) |-> metas[k].Version]

Load(id, version, docType) == loadVersioned(dirs, files, id, version, docType, "none")

\* <<n, n-1, ..., 1>>
Descending(n) == [k \in 1..n |-> n + 1 - k]

(***************************************************************************)
(* C1: after N successful saves of one type for one document id, the calls *)
(* left the versions 1, 2, ..., N in their documents, in call order; the   *)
(* store lists exactly N..1, holds under each version k an artifact with   *)
(* embedded version k, and loading version 0 gives the same artifact as    *)
(* loading version N.  This is so for both types, whatever was saved for   *)
(* the other type in between.                                              *)
(***************************************************************************)
C1_VersionsOneToN ==
    \A id \in DocIDs, t \in Types :
        LET n == Len(assigned[<<id, t>>])
        IN  /\ assigned[<<id, t>>] = [k \in 1..n |-> k]
            /\ ListedVersions(id, t) = Descending(n)
            /\ \A k \in 1..n :
                    /\ Load(id, k, t).err = "nil"
                    /\ Load(id, k, t).doc.Metadata.Version = k
                    /\ Load(id, k, t).doc.Metadata.DocumentID = id
            /\ n >= 1 => Load(id, 0, t) = Load(id, n, t)
            /\ (lastOp.id = id /\ lastOp.docType = t
                    /\ lastOp.op \in {"SaveParsed", "SaveSegmented", "SaveSegmentedWithLabel"})
                  => lastOp.version = n /\ lastOp.err = "nil"

\* Three parsed saves of d1 with segmented saves of d1 in between, the third just made.
C1_Witness ==
    /\ assigned[<<D1, "parsed">>] = <<1, 2, 3>>
    /\ Len(assigned[<<D1, "segmented">>]) >= 1
    /\ lastOp.op = "SaveParsed" /\ lastOp.id = D1 /\ lastOp.version = 3
    /\ Load(D1, 0, "parsed").err = "nil"

\* C11: ListVersions(id, type) returns, without error, one entry for each version of the
\* type saved for the id, each naming that id and type, in strictly descending order of
\* version, and nothing else; for a document without history it returns the empty list.
C11_ListExactlySaved ==
    \A id \in DocIDs, t \in Types :
        LET r == ListVersions(dirs, files, id, t, "none")
            n == Len(assigned[<<id, t>>])
        IN  /\ r.err = "nil"
            /\ Len(r.metas) = n
            /\ \A k \in 1..n :
                   /\ r.metas[k].Version = n + 1 - k
                   /\ r.metas[k].Type = t
                   /\ r.metas[k].DocumentID = id
            /\ VersionDirs(dirs, id) = {} => r.metas = <<>>

\* d1 has two parsed versions and a segmented one in the same directory v1, d2 has a
\* version of its own and no segmented one: the listings are <<2, 1>>, <<1>>, <<1>>, <<>>.
C11_Witness ==
    /\ ListedVersions(D1, "parsed") = <<2, 1>>
    /\ ListedVersions(D1, "segmented") = <<1>>
    /\ ListedVersions(D2, "parsed") = <<1>>
    /\ ListVersions(dirs, files, D2, "segmented", "none") = [metas |-> <<>>, err |-> "nil"]

(***************************************************************************)
(* C2: after successful SaveFinal calls for one document id, in any mix of *)
(* formats, exactly one final artifact exists for the id and LoadFinal     *)
(* returns the data of the most recent call.                               *)
(***************************************************************************)
C2_SingleCurrentFinal ==
    \A id \in DocIDs :
        lastFinal[id] # <<>> =>
            /\ Cardinality(FinalsOf(id)) = 1
            /\ LoadFinal(finalFiles, id, "none").err = "nil"
            /\ LoadFinal(finalFiles, id, "none").doc = lastFinal[id][1]

(***************************************************************************)
(* SpecFault: saves and loads under failing file-system steps.             *)
(***************************************************************************)
RECURSIVE StrictlyIncreasingFrom(_, _)
StrictlyIncreasingFrom(versions, low) ==
    \/ versions = <<>>
    \/ Head(versions) > low /\ StrictlyIncreasingFrom(Tail(versions), Head(versions))

\* C6: for every (documentID, type) the version numbers handed out to the save calls of
\* a single writer, failed calls included, start at 1 and are strictly increasing, so no
\* number is handed out twice and no written artifact is written over.
C6_VersionsNeverReused ==
    \A k \in DOMAIN assigned :
        /\ assigned[k] # <<>> => assigned[k][1] = 1
        /\ StrictlyIncreasingFrom(assigned[k], 0)

\* The sidecars of one type that exist for a document, whatever they hold.
SidecarsOf(id, docType) ==
    {v \in VersionDirs(dirs, id) : SidecarPath(files, id, v, docType) # <<>>}

\* C8: a storage call in which a file-system step failed returns an error, and a
\* listing that returns no error has passed over no sidecar that exists but is not
\* decodable.
C8_ErrorsPropagate ==
    /\ lastOp.fault # "none" => lastOp.err # "nil"
    /\ lastOp.op = "ListVersions" /\ lastOp.err = "nil" =>
           \A v \in SidecarsOf(lastOp.id, lastOp.docType) :
               files[SidecarPath(files, lastOp.id, v, lastOp.docType)[1]].ok

\* Whether an artifact of the type is stored at the version a load asks for, 0 asking
\* for the latest one.
ArtifactAt(id, docType, version) ==
    IF version = 0
    THEN \E v \in VersionDirs(dirs, id) : <<id, v, ArtifactFile(docType)>> \in DOMAIN files
    ELSE <<id, version, ArtifactFile(docType)>> \in DOMAIN files

\* C10: LoadParsed/LoadSegmented return the not-found error whenever no artifact of the
\* type is stored at the requested version, and never for another I/O failure;
\* LoadFinal returns its not-found error exactly when none of the three files exists.
C10_NotFoundDistinct ==
    /\ lastOp.op \in {"LoadParsed", "LoadSegmented"} =>
           /\ ~ArtifactAt(lastOp.id, lastOp.docType, lastOp.version) =>
                  lastOp.err = "NotExist"
           /\ lastOp.err = "NotExist" => lastOp.fault = "none"
    /\ lastOp.op = "LoadFinal" => (lastOp.err = "NotFound" <=> FinalsOf(lastOp.id) = {})

\* C27: in every state of the store, each entry ListVersions returns for a document
\* and type has an artifact that loads: the load at the entry's version succeeds, the
\* document it returns carries the entry's Version and DocumentID, and the entry's Size
\* is the length of the stored artifact.
C27_ListedIsLoadable ==
    \A id \in DocIDs, t \in Types :
        LET metas == ListVersions(dirs, files, id, t, "none").metas
        IN  \A k \in DOMAIN metas :
                LET loaded == Load(id, metas[k].Version, t)
                IN  /\ loaded.err = "nil"
                    /\ loaded.doc.Metadata.Version = metas[k].Version
                    /\ loaded.doc.Metadata.DocumentID = metas[k].DocumentID
                    /\ metas[k].Size
                           = ByteLen(files[<<id, metas[k].Version, ArtifactFile(t)>>], t)

\* The calls that save a version.
VersionedSaves == {"SaveParsed", "SaveSegmented", "SaveSegmentedWithLabel"}

\* C28: a SaveParsed, SaveSegmented or SaveSegmentedWithLabel that returns an error
\* leaves the store and the caller's document as they were: no new directory or file,
\* the same listings and loads, and the version field of the document (0 before the
\* call) unchanged.
C28_FailedSaveLeavesNoTrace ==
    [][(nSaves' = nSaves + 1 /\ lastOp'.op \in VersionedSaves /\ lastOp'.err # "nil") =>
           /\ dirs' = dirs
           /\ files' = files
           /\ \A id \in FaultIDs, t \in Types :
                  /\ ListVersions(dirs', files', id, t, "none")
                         = ListVersions(dirs, files, id, t, "none")
                  /\ \A v \in 0..MaxVersion :
                         loadVersioned(dirs', files', id, v, t, "none")
                             = loadVersioned(dirs, files, id, v, t, "none")
           /\ lastOp'.version = 0]_vars

=============================================================================
